---- MODULE Spec2Model ----
(***************************************************************************)
(* A model of the document extraction pipeline of MLNodeJSParser:          *)
(* StructuredDataExtractor, PdfParser's table heuristic, the text helpers, *)
(* ContentAnalyzer and the structured sheet of ExcelExporter.              *)
(*                                                                         *)
(* A JavaScript string is a sequence of one-character strings.  A Map is a *)
(* sequence of entries in insertion order.  A plain object (Record) is a   *)
(* sequence of own properties in the order Object.keys reports them.       *)
(***************************************************************************)
EXTENDS Integers, Sequences, FiniteSets, TLC

VARIABLES
    pc,                     \* where the caller stands
    text,                   \* the text scanned: a span of prose, or a document's text
    \* StructuredDataExtractor, as its caller uses it
    fields,                 \* StructuredField[] returned by extractFields
    merged,                 \* Map returned by mergeFields
    rows,                   \* rows returned by toFlatStructure
    round,                  \* how often the merged mapping was written back
    prevMerged,             \* the merged mapping that was written back
    \* DocumentExtractor.extract and the export
    tables,                 \* parsedDoc.tables
    threshold,              \* ContentAnalyzer.confidenceThreshold
    enableTableExtraction,  \* config.enableTableExtraction
    paragraphs,             \* analyzeText: paragraphs
    idx,                    \* analyzeText: i
    contents,               \* extractedContents, then allContents
    scorerCalls,            \* the texts classifier.classify was called with
    classifications,        \* what the last classify call returned
    confidence,             \* what the last calculateConfidence call returned
    sheet,                  \* the rows written to the 'Structured Data' sheet
    \* calculateConfidence called on its own
    textLength,             \* text.length
    score,                  \* classificationScore
    \* ZeroShotClassifier.classify
    inference,              \* how the last call of the model ended
    \* DocumentExtractor.extract
    summary,                \* the summary of the ExtractionResult
    \* DocumentExtractor, its ContentAnalyzer and its ZeroShotClassifier
    config,                 \* this.config: classificationLabels and confidenceThreshold
    labels,                 \* ContentAnalyzer.classificationLabels
    error,                  \* the message of the error the last call threw, "" when none
    filePath,               \* the path extract was called with
    parser,                 \* the parser ParserFactory.getParser returned
    isInitialized,          \* ZeroShotClassifier.isInitialized
    file,                   \* what the parser finds at filePath
    \* JsonExporter.export
    options,                \* ExportOptions: prettyPrint and includeMetadata
    json,                   \* the string JsonExporter wrote to options.outputPath
    csv,                    \* the string CsvExporter wrote to options.outputPath
    \* ZeroShotClassifier under concurrent calls
    callers,                \* every caller: its call, where the call stands, what it returned
    pipelineCalls,          \* how often initialize has called pipeline()
    pipelines               \* the pipelines created, in order; this.classifier is the last

fieldVars == <<fields, merged, rows, round, prevMerged>>

pipeVars ==
    <<tables, threshold, enableTableExtraction, paragraphs, idx, contents,
      scorerCalls, classifications, confidence, sheet>>

confVars == <<textLength, score>>

callVars == <<inference, summary>>

extractorVars == <<config, labels, error, filePath, parser, isInitialized, file>>

exportVars == <<options, json, csv>>

classifierVars == <<callers, pipelineCalls, pipelines>>

vars ==
    <<pc, text, fieldVars, pipeVars, confVars, callVars, extractorVars, exportVars,
      classifierVars>>

(***************************************************************************)
(* Characters and the character classes of the regular expressions.        *)
(***************************************************************************)
LowerLetters ==
    {"a","b","c","d","e","f","g","h","i","j","k","l","m",
     "n","o","p","q","r","s","t","u","v","w","x","y","z"}

UpperLetters ==
    {"A","B","C","D","E","F","G","H","I","J","K","L","M",
     "N","O","P","Q","R","S","T","U","V","W","X","Y","Z"}

Digits == {"0","1","2","3","4","5","6","7","8","9"}

WordChars == LowerLetters \cup UpperLetters \cup Digits \cup {"_"}

SpaceChars == {" ", "\t", "\n", "\r"}

\* \w
IsWord(c) == c \in WordChars

\* \s, and what String.prototype.trim removes
IsSpace(c) == c \in SpaceChars

\* slice of s from index a to index b (1-based, inclusive); empty when b < a
Sub(s, a, b) == IF b < a THEN <<>> ELSE SubSeq(s, a, b)

RECURSIVE Concat(_)
\* concatenation of a sequence of strings
Concat(ss) == IF ss = <<>> THEN <<>> ELSE Head(ss) \o Concat(Tail(ss))

RECURSIVE Join(_, _)
\* Array.prototype.join
Join(ss, sep) ==
    IF ss = <<>> THEN <<>>
    ELSE IF Len(ss) = 1 THEN ss[1]
    ELSE ss[1] \o sep \o Join(Tail(ss), sep)

\* String.prototype.trim
Trim(s) ==
    LET keep == {i \in 1..Len(s) : ~IsSpace(s[i])}
        tail == {i \in 1..Len(s) : \A j \in i..Len(s) : IsSpace(s[j])}
    IN  IF keep = {} THEN <<>>
        ELSE SubSeq(s, CHOOSE i \in keep : \A j \in keep : i <= j, Len(s) - Cardinality(tail))

\* the largest member of a finite set of naturals, 0 for the empty set
MaxOf(S) == IF S = {} THEN 0 ELSE CHOOSE x \in S : \A y \in S : y <= x

\* the least member of a non-empty finite set of naturals
MinOf(S) == CHOOSE x \in S : \A y \in S : x <= y

\* sequences over S of length 0..n
SeqUpTo(S, n) == UNION {[1..k -> S] : k \in 0..n}

(***************************************************************************)
(* StructuredDataExtractor.splitValues                                     *)
(***************************************************************************)
RECURSIVE SplitOnChars(_, _)
\* text.split(/[,;|]/) and text.split('\n'): one piece per separator, plus
\* one; the empty string gives one empty piece
SplitOnChars(s, seps) ==
    LET at == {i \in 1..Len(s) : s[i] \in seps}
    IN  IF at = {} THEN <<s>>
        ELSE LET i == MinOf(at)
             IN  <<Sub(s, 1, i - 1)>> \o SplitOnChars(Sub(s, i + 1, Len(s)), seps)

\* first index >= p of s that holds no whitespace, Len(s) + 1 when none
SkipSpace(s, p) ==
    LET at == {i \in p..Len(s) : ~IsSpace(s[i])}
    IN  IF at = {} THEN Len(s) + 1 ELSE MinOf(at)

\* (?:and|or) at index p, under the i flag: the index after it, 0 if absent
ConjEnd(s, p) ==
    IF /\ p + 2 <= Len(s)
       /\ s[p] \in {"a", "A"} /\ s[p + 1] \in {"n", "N"} /\ s[p + 2] \in {"d", "D"}
    THEN p + 3
    ELSE IF p + 1 <= Len(s) /\ s[p] \in {"o", "O"} /\ s[p + 1] \in {"r", "R"}
    THEN p + 2
    ELSE 0

\* /\s+(?:and|or)\s+/i matched at index p: the index after the match, 0 if
\* none.  \s+ is greedy; giving whitespace back never helps, because what
\* follows a shorter \s+ is whitespace.
ConjMatchEnd(s, p) ==
    IF p > Len(s) \/ ~IsSpace(s[p]) THEN 0
    ELSE LET w == SkipSpace(s, p)
             c == ConjEnd(s, w)
         IN  IF c = 0 \/ c > Len(s) \/ ~IsSpace(s[c]) THEN 0
             ELSE SkipSpace(s, c)

RECURSIVE SplitOnConj(_)
\* text.split(/\s+(?:and|or)\s+/i)
SplitOnConj(s) ==
    LET at == {i \in 1..Len(s) : ConjMatchEnd(s, i) # 0}
    IN  IF at = {} THEN <<s>>
        ELSE LET i == MinOf(at)
                 e == ConjMatchEnd(s, i)
             IN  <<Sub(s, 1, i - 1)>> \o SplitOnConj(Sub(s, e, Len(s)))

\* .map((v) => v.trim())
MapTrim(ss) == [i \in 1..Len(ss) |-> Trim(ss[i])]

\* every piece kept
KeepAll(ss) == ss

\* .filter((v) => v.length > 0)
FilterNonEmpty(ss) == SelectSeq(ss, LAMBDA v : Len(v) > 0)

splitValues(s) ==
    LET first  == MapTrim(SplitOnChars(s, {",", ";", "|"}))
        values == IF Len(first) = 1 THEN MapTrim(SplitOnConj(s)) ELSE first
    IN  FilterNonEmpty(values)

(***************************************************************************)
(* StructuredDataExtractor.extractFields: the exec loop of colonPattern    *)
(***************************************************************************)
\* colonPattern is  /(\w+(?:\s+\w+)*)\s*:\s*([^;\n]+)/gi
\* last index of the run of word characters that starts at p
WordEnd(s, p) ==
    LET stop == {i \in p..Len(s) : ~IsWord(s[i])}
    IN  IF stop = {} THEN Len(s) ELSE MinOf(stop) - 1

\* last index of the key group started at the word character p, taken
\* greedily: the words and the whitespace between them up to the first
\* character that is neither, less the whitespace at the end.  Every shorter
\* choice is followed by a word character or by whitespace and a word
\* character, so \s*: cannot follow it.
KeyEnd(s, p) ==
    LET stop  == {i \in p..Len(s) : ~IsWord(s[i]) /\ ~IsSpace(s[i])}
        lim   == IF stop = {} THEN Len(s) ELSE MinOf(stop) - 1
        blank == {i \in p..lim : \A j \in i..lim : IsSpace(s[j])}
    IN  lim - Cardinality(blank)

\* last index of [^;\n]+ started at p
SpanEnd(s, p) ==
    LET stop == {i \in p..Len(s) : s[i] \in {";", "\n"}}
    IN  IF stop = {} THEN Len(s) ELSE MinOf(stop) - 1

NoMatch == [found |-> FALSE]

\* the match of the pattern that starts at index p, if there is one
MatchAt(s, p) ==
    IF p > Len(s) \/ ~IsWord(s[p]) THEN NoMatch
    ELSE LET e == KeyEnd(s, p)
             q == SkipSpace(s, e + 1)
         IN  IF q > Len(s) \/ s[q] # ":" THEN NoMatch
             ELSE LET w    == SkipSpace(s, q + 1)
                      \* \s* gives whitespace back until [^;\n]+ can start
                      back == {j \in (q + 1)..(w - 1) : s[j] # "\n"}
                      v    == IF w <= Len(s) /\ s[w] # ";" THEN w
                              ELSE IF back # {} THEN MaxOf(back)
                              ELSE 0
                  IN  IF v = 0 THEN NoMatch
                      ELSE [found |-> TRUE, start |-> p, keyEnd |-> e,
                            valStart |-> v, valEnd |-> SpanEnd(s, v)]

RECURSIVE ExecLoop(_, _, _)
\* while ((match = colonPattern.exec(text)) !== null) { ... }
ExecLoop(s, lastIndex, acc) ==
    LET \* a match that starts inside a word also starts at the first
        \* character of that word that lastIndex allows: the key group ends
        \* at the same place
        from == {p \in lastIndex..Len(s) :
                    IsWord(s[p]) /\ (p = lastIndex \/ ~IsWord(s[p - 1]))}
        at   == {p \in from : MatchAt(s, p).found}
    IN  IF at = {} THEN acc
        ELSE LET m      == MatchAt(s, MinOf(at))
                 key    == Trim(Sub(s, m.start, m.keyEnd))
                 values == splitValues(Trim(Sub(s, m.valStart, m.valEnd)))
                 field  == [key |-> key, values |-> values,
                            rawText |-> Sub(s, m.start, m.valEnd)]
             IN  ExecLoop(s, m.valEnd + 1,
                          IF Len(values) > 0 THEN Append(acc, field) ELSE acc)

extractFields(s) == ExecLoop(s, 1, <<>>)

RECURSIVE extractFromMultiple(_)
extractFromMultiple(texts) ==
    IF texts = <<>> THEN <<>>
    ELSE extractFields(Head(texts)) \o extractFromMultiple(Tail(texts))

(***************************************************************************)
(* StructuredDataExtractor.mergeFields: a Map, in insertion order          *)
(***************************************************************************)
MapHas(m, k) == \E i \in 1..Len(m) : m[i].key = k

MapIndex(m, k) == CHOOSE i \in 1..Len(m) : m[i].key = k

MapGet(m, k) == m[MapIndex(m, k)].values

MapKeys(m) == [i \in 1..Len(m) |-> m[i].key]

Includes(vs, v) == \E i \in 1..Len(vs) : vs[i] = v

RECURSIVE PushUnique(_, _)
\* for (const value of field.values) if (!existing.includes(value)) push
PushUnique(existing, values) ==
    IF values = <<>> THEN existing
    ELSE PushUnique(IF Includes(existing, Head(values)) THEN existing
                    ELSE Append(existing, Head(values)),
                    Tail(values))

MergeOne(m, field) ==
    IF MapHas(m, field.key)
    THEN [m EXCEPT ![MapIndex(m, field.key)].values = PushUnique(@, field.values)]
    ELSE Append(m, [key |-> field.key, values |-> field.values])

RECURSIVE MergeLoop(_, _)
MergeLoop(m, fs) ==
    IF fs = <<>> THEN m ELSE MergeLoop(MergeOne(m, Head(fs)), Tail(fs))

mergeFields(fs) == MergeLoop(<<>>, fs)

(***************************************************************************)
(* A plain object used as Record<string, string>.  Object.keys lists the   *)
(* array-index keys first, in ascending numeric order, then the other      *)
(* string keys in insertion order.  An assignment to "__proto__" reaches   *)
(* the accessor of Object.prototype, which ignores a string: no own        *)
(* property is created.                                                    *)
(***************************************************************************)
ProtoKey == <<"_", "_", "p", "r", "o", "t", "o", "_", "_">>

\* a canonical numeric string: digits only, no leading zero (up to 2^32 - 2,
\* which no key of the model exceeds)
IsArrayIndex(k) ==
    /\ Len(k) > 0
    /\ \A i \in 1..Len(k) : k[i] \in Digits
    /\ (Len(k) > 1 => k[1] # "0")

DigitValue(c) ==
    CASE c = "0" -> 0 [] c = "1" -> 1 [] c = "2" -> 2 [] c = "3" -> 3
      [] c = "4" -> 4 [] c = "5" -> 5 [] c = "6" -> 6 [] c = "7" -> 7
      [] c = "8" -> 8 [] c = "9" -> 9

RECURSIVE IndexValue(_)
IndexValue(k) ==
    IF k = <<>> THEN 0
    ELSE 10 * IndexValue(Sub(k, 1, Len(k) - 1)) + DigitValue(k[Len(k)])

RecordHas(r, k) == \E i \in 1..Len(r) : r[i].key = k

RecordKeys(r) == [i \in 1..Len(r) |-> r[i].key]

\* row[key] = value
RecordSet(r, k, v) ==
    IF k = ProtoKey THEN r
    ELSE IF RecordHas(r, k)
    THEN [i \in 1..Len(r) |-> IF r[i].key = k THEN [key |-> k, value |-> v] ELSE r[i]]
    ELSE IF IsArrayIndex(k)
    THEN LET before == {i \in 1..Len(r) :
                          IsArrayIndex(r[i].key) /\ IndexValue(r[i].key) < IndexValue(k)}
             n == Cardinality(before)
         IN  Sub(r, 1, n) \o <<[key |-> k, value |-> v]>> \o Sub(r, n + 1, Len(r))
    ELSE Append(r, [key |-> k, value |-> v])

(***************************************************************************)
(* StructuredDataExtractor.toFlatStructure                                 *)
(***************************************************************************)
\* values[i] || ''   (i is 0-based)
ValueOrEmpty(values, i) ==
    IF i + 1 <= Len(values) /\ values[i + 1] # <<>> THEN values[i + 1] ELSE <<>>

RECURSIVE BuildRow(_, _, _, _)
\* for (const key of keys) row[key] = values[i] || ''
BuildRow(m, keys, i, row) ==
    IF keys = <<>> THEN row
    ELSE BuildRow(m, Tail(keys), i,
                  RecordSet(row, Head(keys), ValueOrEmpty(MapGet(m, Head(keys)), i)))

\* Math.max(...Array.from(merged.values()).map((v) => v.length))
MaxValues(m) == MaxOf({Len(m[i].values) : i \in 1..Len(m)})

toFlatStructure(fs) ==
    IF Len(fs) = 0 THEN <<>>
    ELSE LET m == mergeFields(fs)
         IN  [i \in 1..MaxValues(m) |-> BuildRow(m, MapKeys(m), i - 1, <<>>)]

extractToExcelFormat(texts) == toFlatStructure(extractFromMultiple(texts))

(***************************************************************************)
(* helpers.ts: normalizeText, splitIntoParagraphs, calculateConfidence     *)
(***************************************************************************)
RECURSIVE ReplaceCrLf(_)
\* .replace(/\r\n/g, '\n'), from one occurrence to the next
ReplaceCrLf(s) ==
    LET at == {i \in 1..(Len(s) - 1) : s[i] = "\r" /\ s[i + 1] = "\n"}
    IN  IF at = {} THEN s
        ELSE LET i == MinOf(at)
             IN  Sub(s, 1, i - 1) \o <<"\n">> \o ReplaceCrLf(Sub(s, i + 2, Len(s)))

\* .replace(/\r/g, '\n') and .replace(/\t/g, ' ')
ReplaceChar(s, from, to) == [i \in 1..Len(s) |-> IF s[i] = from THEN to ELSE s[i]]

RECURSIVE CollapseSpace(_)
\* .replace(/\s+/g, ' '): every run of whitespace, line breaks included,
\* becomes one space
CollapseSpace(s) ==
    LET at == {i \in 1..Len(s) : IsSpace(s[i])}
    IN  IF at = {} THEN s
        ELSE LET i == MinOf(at)
             IN  Sub(s, 1, i - 1) \o <<" ">>
                     \o CollapseSpace(Sub(s, SkipSpace(s, i), Len(s)))

normalizeText(s) ==
    Trim(CollapseSpace(ReplaceChar(ReplaceChar(ReplaceCrLf(s), "\r", "\n"), "\t", " ")))

\* first index >= p of s that holds no line feed, Len(s) + 1 when none
SkipNewlines(s, p) ==
    LET at == {i \in p..Len(s) : s[i] # "\n"}
    IN  IF at = {} THEN Len(s) + 1 ELSE MinOf(at)

RECURSIVE SplitOnBlankLines(_)
\* text.split(/\n\n+/)
SplitOnBlankLines(s) ==
    LET at == {i \in 1..(Len(s) - 1) : s[i] = "\n" /\ s[i + 1] = "\n"}
    IN  IF at = {} THEN <<s>>
        ELSE LET i == MinOf(at)
             IN  <<Sub(s, 1, i - 1)>>
                     \o SplitOnBlankLines(Sub(s, SkipNewlines(s, i), Len(s)))

splitIntoParagraphs(s) == FilterNonEmpty(MapTrim(SplitOnBlankLines(s)))

\* Scores, thresholds and confidences are decimals with three places, held
\* as integers: Unit is 1.0.
Unit == 1000

\* a computation that leaves the cap out
Uncapped(a, b) == b

\* Math.min(a, b)
Min2(a, b) == IF a <= b THEN a ELSE b

\* Math.max(a, b)
Max2(a, b) == IF a >= b THEN a ELSE b

\* Math.round(confidence * 100) / 100.  Math.round rounds a half up; a
\* decimal that lies exactly between two hundredths has no binary double, and
\* the double the program holds lies on either side of it (0.145 * 100 is
\* 14.499999999999998), so both neighbours are possible results.
RoundToHundredths(c) ==
    IF c % 10 = 5 THEN {c - 5, c + 5} ELSE {((c + 5) \div 10) * 10}

\* calculateConfidence(text, classificationScore), text given by its length:
\* the values the call may return
calculateConfidence(len, classificationScore) ==
    LET boosted == IF len > 100 THEN Min2(Unit, classificationScore + 50)
                   ELSE classificationScore
        reduced == IF len < 20 THEN Max2(0, boosted - 100) ELSE boosted
    IN  RoundToHundredths(reduced)

(***************************************************************************)
(* PdfParser: splitTableRow, detectHeaders, extractTables                  *)
(***************************************************************************)
\* index after the run of whitespace that starts at p
SpaceRunEnd(s, p) == SkipSpace(s, p)

\* /\s{2,}|\t+/ matched at index p: the index after the match, 0 if none.
\* \s{2,} is tried first and takes the whole run of whitespace; \t+ is left
\* with a tab that stands alone.
CellSepEnd(s, p) ==
    IF p > Len(s) \/ ~IsSpace(s[p]) THEN 0
    ELSE IF SpaceRunEnd(s, p) - p >= 2 THEN SpaceRunEnd(s, p)
    ELSE IF s[p] = "\t" THEN p + 1
    ELSE 0

RECURSIVE SplitOnCellSep(_)
\* line.split(/\s{2,}|\t+/)
SplitOnCellSep(s) ==
    LET at == {i \in 1..Len(s) : CellSepEnd(s, i) # 0}
    IN  IF at = {} THEN <<s>>
        ELSE LET i == MinOf(at)
             IN  <<Sub(s, 1, i - 1)>> \o SplitOnCellSep(Sub(s, CellSepEnd(s, i), Len(s)))

splitTableRow(line) == FilterNonEmpty(MapTrim(SplitOnCellSep(line)))

UpperSeq ==
    <<"A","B","C","D","E","F","G","H","I","J","K","L","M",
      "N","O","P","Q","R","S","T","U","V","W","X","Y","Z">>

LowerSeq ==
    <<"a","b","c","d","e","f","g","h","i","j","k","l","m",
      "n","o","p","q","r","s","t","u","v","w","x","y","z">>

\* cell.toLowerCase()
ToLowerCase(s) ==
    [i \in 1..Len(s) |->
        IF s[i] \in UpperLetters
        THEN LowerSeq[CHOOSE n \in 1..26 : UpperSeq[n] = s[i]]
        ELSE s[i]]

\* s.includes(sub)
StrIncludes(s, sub) ==
    \E i \in 1..(Len(s) - Len(sub) + 1) : SubSeq(s, i, i + Len(sub) - 1) = sub

HeaderTokens ==
    {<<"n","a","m","e">>, <<"t","y","p","e">>,
     <<"d","e","s","c","r","i","p","t","i","o","n">>, <<"v","a","l","u","e">>}

\* /\d/.test(cell)
HasDigit(cell) == \E i \in 1..Len(cell) : cell[i] \in Digits

\* a first row is a header only when none of its cells holds a digit
NoDigitAnywhere(firstRow) == \A c \in 1..Len(firstRow) : ~HasDigit(firstRow[c])

looksLikeHeader(firstRow) ==
    \E c \in 1..Len(firstRow) :
        \/ \E t \in HeaderTokens : StrIncludes(ToLowerCase(firstRow[c]), t)
        \/ ~HasDigit(firstRow[c])

\* detectHeaders: hasHeaders is FALSE where the code returns undefined
detectHeaders(table) ==
    IF Len(table) = 0 THEN [hasHeaders |-> FALSE, headers |-> <<>>]
    ELSE IF looksLikeHeader(table[1]) THEN [hasHeaders |-> TRUE, headers |-> table[1]]
    ELSE [hasHeaders |-> FALSE, headers |-> <<>>]

\* const headers = detectHeaders(currentTable);
\* const rows = headers ? currentTable.slice(1) : currentTable;
MakeTable(currentTable) ==
    LET h == detectHeaders(currentTable)
    IN  [hasHeaders |-> h.hasHeaders, headers |-> h.headers,
         rows |-> IF h.hasHeaders THEN Tail(currentTable) ELSE currentTable]

\* if (inTable && currentTable.length > 1) tables.push(...)
CloseBlock(st) ==
    IF st.inTable /\ Len(st.currentTable) > 1
    THEN Append(st.tables, MakeTable(st.currentTable))
    ELSE st.tables

\* one turn of the loop over the lines
TableLineStep(st, rawLine) ==
    LET cells == splitTableRow(Trim(rawLine))
    IN  IF Len(cells) >= 2
        THEN [tables |-> st.tables, inTable |-> TRUE,
              currentTable |-> Append(IF st.inTable THEN st.currentTable ELSE <<>>, cells)]
        ELSE [tables |-> CloseBlock(st), inTable |-> FALSE, currentTable |-> <<>>]

RECURSIVE TableLoop(_, _)
TableLoop(st, lines) ==
    IF lines = <<>> THEN st ELSE TableLoop(TableLineStep(st, Head(lines)), Tail(lines))

\* a parser that forgets the block still open at the end of the document
CloseAtEndForgotten(st) == st.tables

\* the check for a table at the end of the document
CloseAtEnd(st) == CloseBlock(st)

extractTables(s) ==
    CloseAtEnd(TableLoop([tables |-> <<>>, inTable |-> FALSE, currentTable |-> <<>>],
                         SplitOnChars(s, {"\n"})))

(***************************************************************************)
(* Inputs.  Words and the texts of the guide and of the scenarios.         *)
(***************************************************************************)
Country   == <<"C", "o", "u", "n", "t", "r", "y">>
TripType  == <<"T", "r", "i", "p", "T", "y", "p", "e">>
India     == <<"I", "n", "d", "i", "a">>
US        == <<"U", "S">>
China     == <<"C", "h", "i", "n", "a">>
OneWay    == <<"O", "n", "e", "W", "a", "y">>
RoundTrip == <<"R", "o", "u", "n", "d", "T", "r", "i", "p">>
Status    == <<"S", "t", "a", "t", "u", "s">>
Active    == <<"A", "c", "t", "i", "v", "e">>
Pending   == <<"P", "e", "n", "d", "i", "n", "g">>
Closed    == <<"C", "l", "o", "s", "e", "d">>
XandY     == <<"x", " ", "a", "n", "d", " ", "y">>

\* "Country: India, US, China\nTripType: OneWay, RoundTrip"
ScenarioA ==
    Concat(<<Country, <<":", " ">>, India, <<",", " ">>, US, <<",", " ">>, China,
             <<"\n">>, TripType, <<":", " ">>, OneWay, <<",", " ">>, RoundTrip>>)

\* "Key : V1 ; V2 ; V3"
SemicolonForm(K, V1, V2, V3) ==
    Concat(<<K, <<" ", ":", " ">>, V1, <<" ", ";", " ">>, V2, <<" ", ";", " ">>, V3>>)

SemicolonWords == {<<"k">>, <<"a">>, <<"b">>}

\* the texts of that form, each with the key and the values written in it
SemicolonCases ==
    {[text |-> SemicolonForm(c[1], c[2], c[3], c[4]), key |-> c[1],
      values |-> <<c[2], c[3], c[4]>>] :
        c \in (SemicolonWords \X SemicolonWords \X SemicolonWords \X SemicolonWords)
                 \cup {<<Status, Active, Pending, Closed>>}}

SemicolonTexts == {c.text : c \in SemicolonCases}

\* the pieces the bounded texts are made of
Tokens ==
    {<<"k">>, <<"a">>, XandY, <<":">>, <<",">>, <<";">>, <<"|">>, <<" ">>, <<"\n">>}

MaxTokens == 4

TokenTexts == {Concat(ts) : ts \in SeqUpTo(Tokens, MaxTokens)}

Texts == TokenTexts \cup SemicolonTexts \cup {ScenarioA}

\* StructuredFields handed to mergeFields and toFlatStructure directly
FieldKeys == {<<"k">>, <<"7">>, ProtoKey}

FieldValues == {<<"a">>, <<"b">>}

MaxValuesPerField == 2

MaxFields == 2

FieldSet ==
    {[key |-> k, values |-> vs, rawText |-> <<>>] :
        k \in FieldKeys, vs \in SeqUpTo(FieldValues, MaxValuesPerField)}

FieldLists == SeqUpTo(FieldSet, MaxFields)

(***************************************************************************)
(* The structured field extractor as a state machine.  pc is the position  *)
(* of the caller: "text" (a text to scan), "fields" (fields extracted),    *)
(* "merged" (mergeFields returned), "flat" (toFlatStructure returned).     *)
(***************************************************************************)
MaxRounds == 1

\* the merged mapping written back as one line "key: v1, v2, v3" per key
Serialize(m) ==
    Join([i \in 1..Len(m) |-> m[i].key \o <<":", " ">> \o Join(m[i].values, <<",", " ">>)],
         <<"\n">>)

\* ExtractorConfigSchema: the default classificationLabels
classificationLabels ==
    <<"business_rule", "formula", "condition", "definition", "table", "text">>

\* the state of the parts a specification leaves alone
FieldsIdle ==
    fields = <<>> /\ merged = <<>> /\ rows = <<>> /\ round = 0 /\ prevMerged = <<>>

PipelineIdle ==
    /\ tables = <<>>
    /\ threshold = 0
    /\ enableTableExtraction = FALSE
    /\ paragraphs = <<>>
    /\ idx = 0
    /\ contents = <<>>
    /\ scorerCalls = <<>>
    /\ classifications = <<>>
    /\ confidence = 0
    /\ sheet = <<>>

ConfidenceIdle == textLength = 0 /\ score = 0

CallsIdle ==
    /\ inference = "none"
    /\ summary = [totalItems |-> 0, byType |-> <<>>]

MaxCallers == 2

Callers == 1..MaxCallers

\* a caller that has made no call
IdleCaller ==
    [op |-> "none", at |-> "idle", texts |-> <<>>, results |-> <<>>, ready |-> FALSE,
     calls |-> 0]

ClassifierIdle ==
    callers = [c \in Callers |-> IdleCaller] /\ pipelineCalls = 0 /\ pipelines = <<>>

ExportIdle ==
    options = [prettyPrint |-> FALSE, includeMetadata |-> FALSE] /\ json = <<>> /\ csv = <<>>

\* A file as the parsers meet it: whether it can be read and decoded, for a
\* DOCX whether the archive opens and holds word/document.xml, whether the
\* extraction of its tables throws, and the rows of cells of each w:tbl of
\* the document.  The text of the document is the variable text.
IntactFile ==
    [readable |-> TRUE, unzips |-> TRUE, hasXml |-> TRUE, tablesThrow |-> FALSE,
     grids |-> <<>>]

\* an extractor of the default labels, its model loaded, no call under way
ExtractorIdle ==
    /\ config = [classificationLabels |-> classificationLabels, confidenceThreshold |-> threshold]
    /\ labels = classificationLabels
    /\ error = ""
    /\ filePath = <<>>
    /\ parser = "PDF"
    /\ isInitialized = TRUE
    /\ file = IntactFile

ExtractFields ==
    /\ pc = "text"
    /\ fields' = extractFields(text)
    /\ pc' = "fields"
    /\ UNCHANGED <<text, merged, rows, round, prevMerged, pipeVars, exportVars, classifierVars, confVars, extractorVars, callVars>>

MergeFields ==
    /\ pc = "fields"
    /\ merged' = mergeFields(fields)
    /\ pc' = "merged"
    /\ UNCHANGED <<text, fields, rows, round, prevMerged, pipeVars, exportVars, classifierVars, confVars, extractorVars, callVars>>

ToFlatStructure ==
    /\ pc = "merged"
    /\ rows' = toFlatStructure(fields)
    /\ pc' = "flat"
    /\ UNCHANGED <<text, fields, merged, round, prevMerged, pipeVars, exportVars, classifierVars, confVars, extractorVars, callVars>>

\* the merged mapping is serialized and scanned again
Reserialize ==
    /\ pc = "merged"
    /\ round < MaxRounds
    /\ text' = Serialize(merged)
    /\ prevMerged' = merged
    /\ round' = round + 1
    /\ pc' = "text"
    /\ UNCHANGED <<fields, merged, rows, pipeVars, exportVars, classifierVars, confVars, extractorVars, callVars>>

InitExtract ==
    /\ pc = "text"
    /\ text \in Texts
    /\ FieldsIdle
    /\ PipelineIdle
    /\ ConfidenceIdle
    /\ CallsIdle
    /\ ExportIdle
    /\ ClassifierIdle
    /\ ExtractorIdle

NextExtract == ExtractFields \/ MergeFields \/ ToFlatStructure \/ Reserialize

SpecExtract == InitExtract /\ [][NextExtract]_vars

InitMerge ==
    /\ pc = "fields"
    /\ fields \in FieldLists
    /\ text = <<>>
    /\ merged = <<>>
    /\ rows = <<>>
    /\ round = 0
    /\ prevMerged = <<>>
    /\ PipelineIdle
    /\ ConfidenceIdle
    /\ CallsIdle
    /\ ExportIdle
    /\ ClassifierIdle
    /\ ExtractorIdle

NextMerge == MergeFields \/ ToFlatStructure

SpecMerge == InitMerge /\ [][NextMerge]_vars

(***************************************************************************)
(* Claims about the structured field extractor                             *)
(***************************************************************************)
\* the cells of a row that belong to key k
CellsOf(row, k) == {c \in 1..Len(row) : row[c].key = k}

\* C1: toFlatStructure returns n rows, n the longest merged value list (no
\* row for an empty list); every row holds exactly one cell for every merged
\* key, and row i's cell for key k is k's i-th merged value, or the empty
\* string when k has fewer values.
C1_FlatStructure ==
    pc = "flat" =>
        /\ Len(rows) = MaxValues(merged)
        /\ \A i \in 1..Len(rows) : \A j \in 1..Len(merged) :
              /\ Cardinality(CellsOf(rows[i], merged[j].key)) = 1
              /\ \A c \in CellsOf(rows[i], merged[j].key) :
                    rows[i][c].value =
                        IF i <= Len(merged[j].values) THEN merged[j].values[i] ELSE <<>>

RECURSIVE ValuesSeen(_, _)
\* every value of the fields with key k, in the order the fields list them
ValuesSeen(fs, k) ==
    IF fs = <<>> THEN <<>>
    ELSE (IF Head(fs).key = k THEN Head(fs).values ELSE <<>>) \o ValuesSeen(Tail(fs), k)

\* the first occurrence of every value of vs, in order
FirstOccurrences(vs) ==
    LET keep == {i \in 1..Len(vs) : \A j \in 1..(i - 1) : vs[j] # vs[i]}
        nth(n) == CHOOSE i \in keep : Cardinality({j \in keep : j < i}) = n - 1
    IN  [n \in 1..Cardinality(keep) |-> vs[nth(n)]]

NoRepeat(vs) == \A i, j \in 1..Len(vs) : i # j => vs[i] # vs[j]

\* C3: mergeFields maps each key to a value list that holds no string twice
\* and lists the values in first-seen order, also when one field's own
\* value list repeats a value.
C3_MergeDeduplicated ==
    pc \in {"merged", "flat"} =>
        \A j \in 1..Len(merged) :
            /\ NoRepeat(merged[j].values)
            /\ merged[j].values = FirstOccurrences(ValuesSeen(fields, merged[j].key))

ValueSet(vs) == {vs[i] : i \in 1..Len(vs)}

KeySet(m) == {m[i].key : i \in 1..Len(m)}

\* C4: extracting and merging the serialized merged mapping again gives the
\* same key set and, for each key, the same set of values.
C4_Idempotent ==
    (round >= 1 /\ pc \in {"merged", "flat"}) =>
        /\ KeySet(merged) = KeySet(prevMerged)
        /\ \A k \in KeySet(merged) \cap KeySet(prevMerged) :
              ValueSet(MapGet(merged, k)) = ValueSet(MapGet(prevMerged, k))

\* C5: for "Key : V1 ; V2 ; V3" extractFields returns a field for Key whose
\* values are [V1, V2, V3].
C5_SemicolonList ==
    (round = 0 /\ pc # "text") =>
        \A c \in SemicolonCases :
            text = c.text =>
                \E i \in 1..Len(fields) :
                    fields[i].key = c.key /\ fields[i].values = c.values

(***************************************************************************)
(* PdfParser.extractTables on its own                                      *)
(***************************************************************************)
\* the lines the bounded page texts are made of
PdfLines ==
    {<<"a", " ", " ", "b">>,                         \* two cells, no digit
     <<"1", "\t", "2">>,                             \* two cells, digits only
     <<"N", "a", "m", "e", "1", " ", " ", "7">>,     \* a header token and digits
     <<"1", " ", " ", "2", " ", " ", "3">>,          \* three cells, digits only
     <<"a", " ", "b">>,                              \* prose: one cell
     <<" ", " ", "a", " ", " ">>,                    \* one cell once trimmed
     <<>>}                                           \* an empty line

MaxPdfLines == 4

PdfTexts == {Join(ls, <<"\n">>) : ls \in SeqUpTo(PdfLines, MaxPdfLines) \ {<<>>}}

ExtractTables ==
    /\ pc = "pdfText"
    /\ tables' = extractTables(text)
    /\ pc' = "pdfTables"
    /\ UNCHANGED <<text, fieldVars, threshold, enableTableExtraction, paragraphs, idx,
                   contents, scorerCalls, classifications, confidence, sheet, exportVars, classifierVars, confVars, extractorVars, callVars>>

InitPdf ==
    /\ pc = "pdfText"
    /\ text \in PdfTexts
    /\ FieldsIdle
    /\ PipelineIdle
    /\ ConfidenceIdle
    /\ CallsIdle
    /\ ExportIdle
    /\ ClassifierIdle
    /\ ExtractorIdle

NextPdf == ExtractTables

SpecPdf == InitPdf /\ [][NextPdf]_vars

\* the cells of every line of the page text
RowCells ==
    LET lines == SplitOnChars(text, {"\n"})
    IN  [i \in 1..Len(lines) |-> splitTableRow(Trim(lines[i]))]

\* line i looks like a table row
IsTableRow(cells, i) == Len(cells[i]) >= 2

\* the first and the last line of every maximal run of table rows
RunStarts(cells) ==
    {i \in 1..Len(cells) : IsTableRow(cells, i) /\ (i = 1 \/ ~IsTableRow(cells, i - 1))}

RunEnd(cells, i) ==
    i + Cardinality({j \in (i + 1)..Len(cells) : \A n \in i..j : IsTableRow(cells, n)})

\* the runs of two or more lines, in the order of the text
LongRuns(cells) == {i \in RunStarts(cells) : RunEnd(cells, i) > i}

NthLongRun(cells, n) ==
    LET runs == LongRuns(cells)
    IN  CHOOSE i \in runs : Cardinality({j \in runs : j < i}) = n - 1

\* the grid a table holds, header row included
TableGrid(t) == (IF t.hasHeaders THEN <<t.headers>> ELSE <<>>) \o t.rows

RunGrid(cells, i) == SubSeq(cells, i, RunEnd(cells, i))

\* C6: every maximal run of two or more table rows yields exactly one table,
\* with at least one row, a run of one line yields none, and a run that ends
\* with the input is closed like any other.
C6_OneTablePerRun ==
    pc = "pdfTables" =>
        LET cells == RowCells
        IN  /\ Len(tables) = Cardinality(LongRuns(cells))
            /\ \A n \in 1..Len(tables) :
                  /\ Len(tables[n].rows) >= 1
                  /\ TableGrid(tables[n]) = RunGrid(cells, NthLongRun(cells, n))

\* a text with a run of one line, and a run of two lines that ends the input
C6_Witness ==
    /\ pc = "pdfTables"
    /\ \E i \in RunStarts(RowCells) : RunEnd(RowCells, i) = i
    /\ \E i \in LongRuns(RowCells) :
          RunEnd(RowCells, i) = Len(RowCells) /\ RunEnd(RowCells, i) = i + 1
    /\ Len(tables) >= 1

(***************************************************************************)
(* calculateConfidence on its own                                          *)
(***************************************************************************)
MaxTextLength == 101

CalculateConfidence ==
    /\ pc = "score"
    /\ confidence' \in calculateConfidence(textLength, score)
    /\ pc' = "confidence"
    /\ UNCHANGED <<text, fieldVars, tables, threshold, enableTableExtraction, paragraphs,
                   idx, contents, scorerCalls, classifications, sheet, exportVars, classifierVars, confVars, extractorVars, callVars>>

InitConfidence ==
    /\ pc = "score"
    /\ textLength \in 0..MaxTextLength
    /\ score \in 0..Unit
    /\ text = <<>>
    /\ FieldsIdle
    /\ PipelineIdle
    /\ CallsIdle
    /\ ExportIdle
    /\ ClassifierIdle
    /\ ExtractorIdle

NextConfidence == CalculateConfidence

SpecConfidence == InitConfidence /\ [][NextConfidence]_vars

\* the adjustment as the rule words it, before rounding
Adjusted(len, s) ==
    IF len > 100 THEN (IF s + 50 > Unit THEN Unit ELSE s + 50)
    ELSE IF len < 20 THEN (IF s - 100 < 0 THEN 0 ELSE s - 100)
    ELSE s

\* C9: for a score in [0,1] and any text length the result lies in [0,1]; it
\* is the score plus 0.05 (at most 1.0) for a length over 100, minus 0.1 (at
\* least 0.0) for a length under 20, rounded to two decimals; and for the
\* same length a larger score never gives a smaller result.
C9_ConfidenceBounded ==
    pc = "confidence" =>
        /\ confidence \in 0..Unit
        /\ confidence % 10 = 0
        /\ confidence - Adjusted(textLength, score) \in -5..5
        /\ score < Unit =>
              \A higher \in calculateConfidence(textLength, score + 1) : confidence <= higher

\* a long text whose boosted score meets the cap
C9_Witness ==
    /\ pc = "confidence"
    /\ textLength > 100
    /\ score + 50 > Unit
    /\ confidence = Unit

(***************************************************************************)
(* ContentAnalyzer and the structured sheet of ExcelExporter               *)
(***************************************************************************)
\* a loop that passes every paragraph on
NeverTooShort(paragraph) == FALSE

\* if (paragraph.length < 10) continue;
TooShort(paragraph) == Len(paragraph) < 10

\* a filter that lets every confidence through
AnyConfidence(c, thr) == TRUE

\* if (confidence >= this.confidenceThreshold)
AboveThreshold(c, thr) == c >= thr

\* '-'.repeat(50)
Dashes == [i \in 1..50 |-> "-"]

(***************************************************************************)
(* DocumentExtractor.calculateSummary.  byType is a plain object: a read   *)
(* of a key it does not own finds the members of Object.prototype.  A      *)
(* count is a number or NaN.                                               *)
(***************************************************************************)
Number(n) == [nan |-> FALSE, n |-> n]

NaN == [nan |-> TRUE, n |-> 0]

\* !v for a count
Falsy(v) == v.nan \/ v.n = 0

\* members of Object.prototype, each an object or a function
InheritedKeys == {"__proto__", "constructor", "toString", "valueOf", "hasOwnProperty"}

OwnIndex(byType, type) == CHOOSE i \in 1..Len(byType) : byType[i].key = type

Owns(byType, type) == \E i \in 1..Len(byType) : byType[i].key = type

\* byType[type] = v: the setter of __proto__ ignores a number
SetCount(byType, type, v) ==
    IF Owns(byType, type)
    THEN [i \in 1..Len(byType) |->
            IF byType[i].key = type THEN [key |-> type, value |-> v] ELSE byType[i]]
    ELSE IF type = "__proto__" THEN byType
    ELSE Append(byType, [key |-> type, value |-> v])

\* if (!byType[content.type]) byType[content.type] = 0
InitCount(byType, type) ==
    IF Owns(byType, type)
    THEN IF Falsy(byType[OwnIndex(byType, type)].value)
         THEN SetCount(byType, type, Number(0))
         ELSE byType
    ELSE IF type \in InheritedKeys THEN byType
    ELSE SetCount(byType, type, Number(0))

\* byType[content.type]++ : the number of an object or a function is NaN
IncrementCount(byType, type) ==
    IF Owns(byType, type)
    THEN LET v == byType[OwnIndex(byType, type)].value
         IN  SetCount(byType, type, IF v.nan THEN NaN ELSE Number(v.n + 1))
    ELSE SetCount(byType, type, NaN)

RECURSIVE CountTypes(_, _)
\* the loop of calculateSummary over the first n units
CountTypes(cs, n) ==
    IF n = 0 THEN <<>>
    ELSE IncrementCount(InitCount(CountTypes(cs, n - 1), cs[n].type), cs[n].type)

calculateSummary(cs) == [totalItems |-> Len(cs), byType |-> CountTypes(cs, Len(cs))]

\* ContentAnalyzer.tableToText
tableToText(table) ==
    LET head == IF table.hasHeaders
                THEN <<Join(table.headers, <<" ", "|", " ">>), Dashes>>
                ELSE <<>>
        body == [r \in 1..Len(table.rows) |-> Join(table.rows[r], <<" ", "|", " ">>)]
    IN  Join(head \o body, <<"\n">>)

\* An ExtractedContent.  id stands for generateId(), a random UUID: the
\* ordinal of the unit among the units made.  tableData is <<>> where the
\* unit has none, paragraph is -1 where position.paragraph is not set.
TextUnit(n, label, paragraph, c, i) ==
    [id |-> n, type |-> label, content |-> paragraph, confidence |-> c,
     tableData |-> <<>>, paragraph |-> i]

\* tables turned into units that carry no table
analyzeTablesAsText(tbls, n) ==
    [t \in 1..Len(tbls) |-> TextUnit(n + t, "table", tableToText(tbls[t]), Unit, -1)]

\* ContentAnalyzer.analyzeTables, n units made before it
analyzeTables(tbls, n) ==
    [t \in 1..Len(tbls) |->
        [id |-> n + t, type |-> "table", content |-> tableToText(tbls[t]),
         confidence |-> Unit, tableData |-> <<tbls[t]>>, paragraph |-> -1]]

\* the units of the tables put before the units of the text
TablesFirst(textContents, tableContents) == tableContents \o textContents

\* const allContents = [...textContents, ...tableContents]
allContents(textContents, tableContents) == textContents \o tableContents

NoDataMessage ==
    <<"N", "o", " ", "s", "t", "r", "u", "c", "t", "u", "r", "e", "d", " ",
      "k", "e", "y", "-", "v", "a", "l", "u", "e", " ", "d", "a", "t", "a",
      " ", "f", "o", "u", "n", "d">>

\* the value undefined
Undefined == <<"undefined">>

\* row[key]
RecordGet(r, k) ==
    IF RecordHas(r, k) THEN r[CHOOSE i \in 1..Len(r) : r[i].key = k].value ELSE Undefined

\* const data = [keys, ...structuredData.map((row) => keys.map((key) => row[key]))]
SheetRows(structuredData, keys) ==
    <<keys>> \o
    [r \in 1..Len(structuredData) |->
        [j \in 1..Len(keys) |-> RecordGet(structuredData[r], keys[j])]]

\* the array of arrays written to the sheet 'Structured Data'
SheetData(structuredData) ==
    IF Len(structuredData) = 0 THEN <<<<NoDataMessage>>>>
    ELSE SheetRows(structuredData, RecordKeys(structuredData[1]))

\* ExcelExporter.addStructuredDataSheet
addStructuredDataSheet(cs) ==
    SheetData(extractToExcelFormat([i \in 1..Len(cs) |-> cs[i].content]))

(***************************************************************************)
(* DocumentExtractor.extract on a PDF, then the export of the structured   *)
(* sheet.  pc: "doc" (a file to extract), "parsed" (parser.parse           *)
(* returned), "loop" (analyzeText between two paragraphs), "classify"      *)
(* (awaiting classifier.classify), "extracted" (extract returned),         *)
(* "exported" (the sheet is written).                                      *)
(***************************************************************************)
KeyLine1 ==
    <<"C", "o", "u", "n", "t", "r", "y", ":", " ", "I", "n", "d", "i", "a",
      ",", " ", "U", "S", ",", " ", "C", "h", "i", "n", "a">>

KeyLine2 ==
    <<"T", "r", "i", "p", "T", "y", "p", "e", ":", " ", "O", "n", "e", "W",
      "a", "y", ",", " ", "R", "o", "u", "n", "d", "T", "r", "i", "p">>

\* a sentence of 50 characters
Prose50 ==
    <<"R", "a", "t", "e", "s", " ", "a", "p", "p", "l", "y", " ", "d", "a",
      "i", "l", "y", " ", "a", "n", "d", " ", "v", "a", "r", "y", " ", "b",
      "y", " ", "r", "e", "g", "i", "o", "n", " ", "a", "n", "d", " ", "b",
      "y", " ", "s", "e", "a", "s", "o", "n">>

\* lines of two cells: one without a digit, one of digits only
TwoColumnLines == {<<"N", "a", "m", "e", " ", " ", "A", "g", "e">>, <<"1", "\t", "2">>}

DocLines == {KeyLine1, Prose50, <<>>} \cup TwoColumnLines

MaxDocLines == 3

\* documents of two Key: value lines, each on its own line
KeyLineCases ==
    {[text |-> Join(<<KeyLine1, KeyLine2>>, <<"\n">>),
      columns |-> <<[key |-> Country, values |-> <<India, US, China>>],
                    [key |-> TripType, values |-> <<OneWay, RoundTrip>>]>>],
     [text |-> Join(<<KeyLine2, KeyLine1>>, <<"\n">>),
      columns |-> <<[key |-> TripType, values |-> <<OneWay, RoundTrip>>],
                    [key |-> Country, values |-> <<India, US, China>>]>>]}

\* a text with two blocks of table lines, a line of prose or a blank line
\* between them
TwoTableTexts ==
    {Join(<<<<"1", "\t", "2">>, <<"1", "\t", "2">>, sep,
            <<"N", "a", "m", "e", " ", " ", "A", "g", "e">>, <<"1", "\t", "2">>>>, <<"\n">>) :
        sep \in {<<>>, <<"H", "i">>}}

DocTexts ==
    {Join(ls, <<"\n">>) : ls \in SeqUpTo(DocLines, MaxDocLines) \ {<<>>}}
        \cup {c.text : c \in KeyLineCases} \cup TwoTableTexts

Thresholds == {0, 500, 800}

Scores == {0, 750, 795, Unit}

TopLabels == {"business_rule", "table"}

\* the labels ranked, label l first with score s
Ranked(l, s) ==
    <<[label |-> l, score |-> s]>> \o
    [i \in 1..(Len(classificationLabels) - 1) |->
        [label |-> SelectSeq(classificationLabels, LAMBDA x : x # l)[i], score |-> 0]]

\* a catch that gives no score at all
NoScores == <<>>

\* candidateLabels.map((label) => ({ label, score: 0 }))
DefaultScores ==
    [i \in 1..Len(classificationLabels) |-> [label |-> classificationLabels[i], score |-> 0]]

\* how the call of the model inside classify may end: with a ranking, with
\* an answer that holds no label array, or with an exception
InferenceOutcomes ==
    {[kind |-> "ranked", label |-> l, score |-> s] : l \in TopLabels, s \in Scores}
        \cup {[kind |-> k, label |-> "", score |-> 0] : k \in {"noLabels", "threw"}}

\* classify on a text that is not blank, given how the call of the model ends
classify(outcome) ==
    CASE outcome.kind = "ranked" -> Ranked(outcome.label, outcome.score)
      [] outcome.kind = "noLabels" -> <<>>
      [] outcome.kind = "threw" -> DefaultScores

\* what classify may return
ClassifyResults == {classify(o) : o \in InferenceOutcomes}

\* parser.parse(filePath) of PdfParser
Parse ==
    /\ pc = "doc"
    /\ parser = "PDF"
    /\ IF file.readable
       THEN /\ tables' = extractTables(text)
            /\ pc' = "parsed"
            /\ UNCHANGED error
       ELSE /\ error' = "Failed to parse PDF file"
            /\ pc' = "ready"
            /\ UNCHANGED tables
    /\ UNCHANGED <<text, fieldVars, threshold, enableTableExtraction, paragraphs, idx,
                   contents, scorerCalls, classifications, confidence, sheet, exportVars, classifierVars, confVars,
                   callVars, config, labels, filePath, parser, isInitialized, file>>

\* analyzeText up to its loop
AnalyzeText ==
    /\ pc = "parsed"
    /\ paragraphs' = splitIntoParagraphs(normalizeText(text))
    /\ idx' = 0
    /\ contents' = <<>>
    /\ pc' = "loop"
    /\ UNCHANGED <<text, fieldVars, tables, threshold, enableTableExtraction,
                   scorerCalls, classifications, confidence, sheet, exportVars, classifierVars, confVars, extractorVars, callVars>>

\* a turn of the loop that ends at the first continue
SkipParagraph ==
    /\ pc = "loop"
    /\ idx < Len(paragraphs)
    /\ TooShort(paragraphs[idx + 1])
    /\ idx' = idx + 1
    /\ UNCHANGED <<pc, text, fieldVars, tables, threshold, enableTableExtraction, paragraphs,
                   contents, scorerCalls, classifications, confidence, sheet, exportVars, classifierVars, confVars, extractorVars, callVars>>

\* a turn of the loop up to the call of the classifier
Classify ==
    /\ pc = "loop"
    /\ idx < Len(paragraphs)
    /\ ~TooShort(paragraphs[idx + 1])
    /\ scorerCalls' = Append(scorerCalls, [paragraph |-> idx, text |-> paragraphs[idx + 1]])
    /\ pc' = "classify"
    /\ UNCHANGED <<text, fieldVars, tables, threshold, enableTableExtraction, paragraphs,
                   idx, contents, classifications, confidence, sheet, exportVars, classifierVars, confVars, extractorVars, callVars>>

\* the rest of the turn, once classify has returned
ClassifyReturn ==
    /\ pc = "classify"
    /\ \E outcome \in InferenceOutcomes : \E result \in {classify(outcome)} :
          /\ inference' = outcome.kind
          /\ classifications' = result
          /\ IF Len(result) = 0
             THEN UNCHANGED <<confidence, contents>>
             ELSE \E c \in calculateConfidence(Len(paragraphs[idx + 1]), result[1].score) :
                     /\ confidence' = c
                     /\ contents' =
                            IF AboveThreshold(c, threshold)
                            THEN Append(contents,
                                        TextUnit(Len(contents) + 1, result[1].label,
                                                 paragraphs[idx + 1], c, idx))
                            ELSE contents
    /\ idx' = idx + 1
    /\ pc' = "loop"
    /\ UNCHANGED <<text, fieldVars, tables, threshold, enableTableExtraction, paragraphs,
                   scorerCalls, sheet, exportVars, classifierVars, confVars, extractorVars, summary>>

\* analyzeText returns; the tables are analyzed and the contents combined
AnalyzeTables ==
    /\ pc = "loop"
    /\ idx = Len(paragraphs)
    /\ contents' =
           allContents(contents,
                       IF enableTableExtraction /\ Len(tables) > 0
                       THEN analyzeTables(tables, Len(contents))
                       ELSE <<>>)
    /\ summary' = calculateSummary(contents')
    /\ pc' = "extracted"
    /\ UNCHANGED <<text, fieldVars, tables, threshold, enableTableExtraction, paragraphs,
                   idx, scorerCalls, classifications, confidence, sheet, exportVars, classifierVars, confVars, extractorVars, inference>>

\* calculateSummary called on its own
CalculateSummary ==
    /\ pc = "contents"
    /\ summary' = calculateSummary(contents)
    /\ pc' = "summary"
    /\ UNCHANGED <<text, fieldVars, pipeVars, exportVars, classifierVars, confVars, extractorVars, inference>>

\* ExcelExporter.export: the sheet 'Structured Data'
ExportExcel ==
    /\ pc = "extracted"
    /\ sheet' = addStructuredDataSheet(contents)
    /\ pc' = "exported"
    /\ UNCHANGED <<text, fieldVars, tables, threshold, enableTableExtraction, paragraphs,
                   idx, contents, scorerCalls, classifications, confidence, exportVars, classifierVars, confVars, extractorVars, callVars>>

InitPipeline ==
    /\ pc = "doc"
    /\ text \in DocTexts
    /\ threshold \in Thresholds
    /\ enableTableExtraction \in BOOLEAN
    /\ tables = <<>>
    /\ paragraphs = <<>>
    /\ idx = 0
    /\ contents = <<>>
    /\ scorerCalls = <<>>
    /\ classifications = <<>>
    /\ confidence = 0
    /\ sheet = <<>>
    /\ FieldsIdle
    /\ ConfidenceIdle
    /\ CallsIdle
    /\ ExportIdle
    /\ ClassifierIdle
    /\ config = [classificationLabels |-> classificationLabels,
                 confidenceThreshold |-> threshold]
    /\ labels = classificationLabels
    /\ error = ""
    /\ filePath = <<"a", ".", "p", "d", "f">>
    /\ parser = "PDF"
    /\ isInitialized = TRUE
    /\ file \in {[IntactFile EXCEPT !.readable = r] : r \in BOOLEAN}

NextPipeline ==
    \/ Parse
    \/ AnalyzeText
    \/ SkipParagraph
    \/ Classify
    \/ ClassifyReturn
    \/ AnalyzeTables
    \/ ExportExcel

SpecPipeline == InitPipeline /\ [][NextPipeline]_vars

(***************************************************************************)
(* Claims about the extraction and the structured sheet                    *)
(***************************************************************************)
\* the units analyzeText made, and the units of type table
TextUnits == {i \in 1..Len(contents) : contents[i].paragraph >= 0}

TableUnits == {i \in 1..Len(contents) : contents[i].type = "table"}

\* C2: when the text of a document holds several Key: value lines, each on a
\* line of its own, and a unit is made of that text, the sheet 'Structured
\* Data' has one column for every key, and a column holds only values of its
\* own key.
C2_OneColumnPerKey ==
    pc = "exported" =>
        \A c \in KeyLineCases :
            (text = c.text /\ TextUnits # {}) =>
                /\ Len(sheet) >= 1
                /\ Len(sheet[1]) = Len(c.columns)
                /\ \A j \in 1..Len(c.columns) :
                      \E col \in 1..Len(sheet[1]) :
                          /\ sheet[1][col] = c.columns[j].key
                          /\ \A r \in 2..Len(sheet) :
                                sheet[r][col] \in ValueSet(c.columns[j].values) \cup {<<>>}

\* two lines of two columns each, then a sentence
ScenarioBCases ==
    {[text |-> Join(<<r1, r2, Prose50>>, <<"\n">>), lines |-> <<r1, r2>>] :
        r1 \in TwoColumnLines, r2 \in TwoColumnLines}

\* C7: for a PDF whose text is two lines of two columns followed by a
\* sentence, the extraction (tables enabled) gives exactly one table unit,
\* its tableData has 2 rows, and no text unit holds the content of either of
\* the two lines.
C7_ScenarioB ==
    (pc \in {"extracted", "exported"} /\ enableTableExtraction) =>
        \A c \in ScenarioBCases :
            text = c.text =>
                /\ Cardinality(TableUnits) = 1
                /\ \A i \in TableUnits :
                      /\ Len(contents[i].tableData) = 1
                      /\ Len(contents[i].tableData[1].rows) = 2
                /\ \A i \in TextUnits : \A l \in 1..Len(c.lines) :
                      ~StrIncludes(contents[i].content, normalizeText(c.lines[l]))

\* the loop has just finished the turn of paragraph i (0-based) with a call
\* of the classifier that returned a classification
Classified(i) ==
    /\ pc \in {"loop", "extracted", "exported"}
    /\ idx = i + 1
    /\ Len(scorerCalls) > 0
    /\ scorerCalls[Len(scorerCalls)].paragraph = i
    /\ Len(classifications) > 0

\* C8: every text unit has a confidence at or above the threshold, and a
\* paragraph whose confidence is below the threshold gives no unit; with
\* threshold 0.8, top score 0.75 and a paragraph of 50 characters the
\* confidence is 0.75 and there is no unit.
C8_AboveThreshold ==
    /\ \A i \in TextUnits : contents[i].confidence >= threshold
    /\ \A p \in 0..(Len(paragraphs) - 1) :
          (Classified(p) /\ confidence < threshold) =>
              \A i \in TextUnits : contents[i].paragraph # p
    /\ \A p \in 0..(Len(paragraphs) - 1) :
          (/\ Classified(p)
           /\ threshold = 800
           /\ classifications[1].score = 750
           /\ Len(paragraphs[p + 1]) = 50) =>
              /\ confidence = 750
              /\ \A i \in TextUnits : contents[i].paragraph # p

\* threshold 0.8, top score 0.75, a paragraph of 50 characters: no unit
C8_Witness ==
    /\ pc = "extracted"
    /\ Classified(0)
    /\ threshold = 800
    /\ classifications[1].score = 750
    /\ Len(paragraphs[1]) = 50
    /\ confidence = 750
    /\ TextUnits = {}

\* C10: a paragraph of fewer than 10 characters gives no unit, whatever the
\* classifier would answer and whatever the threshold is, and the classifier
\* is not called with it.
C10_ShortParagraphSkipped ==
    \A p \in 0..(Len(paragraphs) - 1) :
        Len(paragraphs[p + 1]) < 10 =>
            /\ \A n \in 1..Len(scorerCalls) : scorerCalls[n].paragraph # p
            /\ \A i \in 1..Len(contents) : contents[i].paragraph # p

\* a short paragraph was passed over, under a threshold every score meets
C10_Witness ==
    /\ pc = "extracted"
    /\ threshold = 0
    /\ Len(paragraphs) = 1
    /\ idx = 1
    /\ Len(paragraphs[1]) < 10
    /\ scorerCalls = <<>>
    /\ contents = <<>>

(***************************************************************************)
(* Claims about a call of the model that fails                             *)
(***************************************************************************)
\* C11: when the call of the model inside classify throws, classify returns
\* exactly one entry per requested label, in the order of the labels and
\* each with score 0, no error reaches analyzeText, and the loop goes on to
\* the next paragraph.
C11_InferenceFailureDegrades ==
    [][(pc = "classify" /\ inference' = "threw") =>
          /\ Len(classifications') = Len(classificationLabels)
          /\ \A i \in 1..Len(classificationLabels) :
                classifications'[i] = [label |-> classificationLabels[i], score |-> 0]
          /\ pc' = "loop"
          /\ idx' = idx + 1]_vars

\* the model threw on the one paragraph of a text and the analysis ended
C11_Witness ==
    /\ pc = "extracted"
    /\ inference = "threw"
    /\ Len(scorerCalls) = 1
    /\ Len(classifications) = Len(classificationLabels)
    /\ \A i \in 1..Len(classifications) : classifications[i].score = 0
    /\ idx = Len(paragraphs)

\* C12: a paragraph whose call of the model threw gives no unit, whatever the
\* threshold in [0,1] and whatever the length of the paragraph.
C12_DegradedFiltered ==
    (pc \in {"loop", "extracted", "exported"} /\ inference = "threw") =>
        \A i \in TextUnits :
            contents[i].paragraph # scorerCalls[Len(scorerCalls)].paragraph

(***************************************************************************)
(* Claims about the units of tables                                        *)
(***************************************************************************)
\* C13: every table handed to analyzeTables gives exactly one unit, in the
\* order of the tables, of type table, with confidence 1.0 and with that
\* table as its tableData, and the classifier is not called for a table;
\* in every result a unit that carries tableData has type table.
C13_TableUnits ==
    [][/\ \A i \in 1..Len(contents') :
             contents'[i].tableData # <<>> => contents'[i].type = "table"
       /\ (pc = "loop" /\ pc' = "extracted" /\ enableTableExtraction) =>
             /\ Len(contents') = Len(contents) + Len(tables)
             /\ SubSeq(contents', 1, Len(contents)) = contents
             /\ \A t \in 1..Len(tables) :
                   /\ contents'[Len(contents) + t].type = "table"
                   /\ contents'[Len(contents) + t].confidence = Unit
                   /\ contents'[Len(contents) + t].tableData = <<tables[t]>>
             /\ scorerCalls' = scorerCalls]_vars

\* two tables gave two units, the first with two rows and no headers, the
\* second with headers, and the classifier was called once, for the paragraph
C13_Witness ==
    /\ pc = "extracted"
    /\ Len(tables) = 2
    /\ ~tables[1].hasHeaders
    /\ tables[2].hasHeaders
    /\ Len(contents) >= 2
    /\ contents[Len(contents) - 1].tableData = <<tables[1]>>
    /\ contents[Len(contents)].tableData = <<tables[2]>>
    /\ Len(scorerCalls) = 1

(***************************************************************************)
(* Claims about the paragraphs of a text                                   *)
(***************************************************************************)
\* the pieces of the document's text that runs of two or more line feeds
\* delimit, trimmed, the empty ones left out
Pieces == splitIntoParagraphs(text)

\* C14: analyzeText takes every non-empty piece of the document's text that
\* runs of two or more line breaks delimit as a paragraph of its own: a text
\* with k pieces gives k paragraphs, and the position.paragraph of a unit is
\* the ordinal of its piece.
C14_ParagraphPerPiece ==
    pc \in {"loop", "classify", "extracted", "exported"} =>
        /\ Len(paragraphs) = Len(Pieces)
        /\ \A i \in TextUnits :
              /\ contents[i].paragraph \in 0..(Len(Pieces) - 1)
              /\ contents[i].content = normalizeText(Pieces[contents[i].paragraph + 1])

(***************************************************************************)
(* calculateSummary on the contents of a result                            *)
(***************************************************************************)
\* the types of units: two of the default labels and two labels that a
\* configuration may name and Object.prototype holds too
SummaryTypes == {"text", "table", "constructor", "__proto__"}

MaxUnits == 3

\* contents of up to MaxUnits units, one for each type of a sequence of types
SummaryContents ==
    {[i \in 1..Len(ts) |-> TextUnit(i, ts[i], Prose50, Unit, 0)] :
        ts \in SeqUpTo(SummaryTypes, MaxUnits)}

InitSummary ==
    /\ pc = "contents"
    /\ contents \in SummaryContents
    /\ text = <<>>
    /\ tables = <<>>
    /\ threshold = 0
    /\ enableTableExtraction = FALSE
    /\ paragraphs = <<>>
    /\ idx = 0
    /\ scorerCalls = <<>>
    /\ classifications = <<>>
    /\ confidence = 0
    /\ sheet = <<>>
    /\ FieldsIdle
    /\ ConfidenceIdle
    /\ CallsIdle
    /\ ExportIdle
    /\ ClassifierIdle
    /\ ExtractorIdle

NextSummary == CalculateSummary

SpecSummary == InitSummary /\ [][NextSummary]_vars

\* the types of the units of the contents
TypesOf(cs) == {cs[i].type : i \in 1..Len(cs)}

\* how many units of the contents have type t
UnitsOfType(cs, t) == Cardinality({i \in 1..Len(cs) : cs[i].type = t})

RECURSIVE SumCounts(_, _)
\* the sum of the first n counts of byType
SumCounts(byType, n) ==
    IF n = 0 THEN 0 ELSE SumCounts(byType, n - 1) + byType[n].value.n

\* C15: in every result totalItems is the length of contents, byType[t] is
\* the number of units of type t for every type that occurs, byType has no
\* other key, and the counts add up to totalItems; no text and no table give
\* empty contents, totalItems 0 and an empty byType.
C15_SummaryCounts ==
    pc \in {"summary", "extracted", "exported"} =>
        /\ summary.totalItems = Len(contents)
        /\ \A t \in TypesOf(contents) :
              /\ Owns(summary.byType, t)
              /\ summary.byType[OwnIndex(summary.byType, t)].value =
                     Number(UnitsOfType(contents, t))
        /\ \A i \in 1..Len(summary.byType) : summary.byType[i].key \in TypesOf(contents)
        /\ SumCounts(summary.byType, Len(summary.byType)) = summary.totalItems
        /\ (text = <<>> /\ tables = <<>> /\ pc # "summary") =>
              (contents = <<>> /\ summary = [totalItems |-> 0, byType |-> <<>>])

(***************************************************************************)
(* Claims about the order of the contents                                  *)
(***************************************************************************)
\* the units that carry a table, in the order of contents
CarryTable == SelectSeq(contents, LAMBDA u : u.tableData # <<>>)

\* C16: the contents of a result are the units of the text in the order of
\* the paragraphs, then the units of the tables in the order of the parser:
\* no unit of a table comes before a unit of the text, and with table
\* extraction disabled no unit carries tableData.
C16_TextThenTables ==
    pc \in {"extracted", "exported"} =>
        /\ \A i, j \in 1..Len(contents) :
              (i < j /\ contents[i].tableData # <<>>) => contents[j].tableData # <<>>
        /\ \A i, j \in 1..Len(contents) :
              (i < j /\ contents[j].tableData = <<>>) =>
                  contents[i].paragraph < contents[j].paragraph
        /\ enableTableExtraction =>
              /\ Len(CarryTable) = Len(tables)
              /\ \A t \in 1..Len(tables) : CarryTable[t].tableData = <<tables[t]>>
        /\ ~enableTableExtraction => CarryTable = <<>>

\* a result with a unit of the text, then the units of two tables
C16_Witness ==
    /\ pc = "extracted"
    /\ enableTableExtraction
    /\ Len(tables) = 2
    /\ Len(contents) = 3
    /\ contents[1].tableData = <<>>
    /\ contents[1].paragraph = 0
    /\ contents[2].tableData = <<tables[1]>>
    /\ contents[3].tableData = <<tables[2]>>

(***************************************************************************)
(* DocumentExtractor: construction, updateConfig and the start of extract  *)
(***************************************************************************)
\* A key of a Partial<ExtractorConfigType>: absent, present and undefined
\* (Undefined), or present with a value
Absent == <<"absent">>

Given(v) == <<"value", v>>

IsGiven(o) == o[1] = "value"

\* a field of the schema with a default: the value, the default for a key
\* that is absent or undefined
FieldOr(o, default) == IF IsGiven(o) THEN o[2] ELSE default

DefaultThreshold == 500

\* z.number().min(0).max(1); z.array(z.string()) and z.boolean() accept every
\* value of their type
SchemaAccepts(input) ==
    IsGiven(input.confidenceThreshold) => input.confidenceThreshold[2] \in 0..Unit

\* ExtractorConfigSchema.parse of an input the schema accepts
SchemaParse(input) ==
    [classificationLabels |-> FieldOr(input.classificationLabels, classificationLabels),
     confidenceThreshold |-> FieldOr(input.confidenceThreshold, DefaultThreshold),
     enableTableExtraction |-> FieldOr(input.enableTableExtraction, TRUE)]

\* { ...this.config, ...config }: a key of config that is present wins, be
\* its value undefined
Spread(partial) ==
    [classificationLabels |->
        IF partial.classificationLabels = Absent
        THEN Given(config.classificationLabels) ELSE partial.classificationLabels,
     confidenceThreshold |->
        IF partial.confidenceThreshold = Absent
        THEN Given(config.confidenceThreshold) ELSE partial.confidenceThreshold,
     enableTableExtraction |->
        IF partial.enableTableExtraction = Absent
        THEN Given(enableTableExtraction) ELSE partial.enableTableExtraction]

\* the configurations a caller passes
ConfigInputs ==
    [classificationLabels : {Absent, Undefined, Given(<<>>), Given(<<"text">>)},
     confidenceThreshold :
        {Absent, Undefined, Given(0 - 1), Given(0), Given(800), Given(Unit), Given(Unit + 1)},
     enableTableExtraction : {Absent, Given(FALSE)}]

\* new DocumentExtractor(config)
Construct ==
    /\ pc = "new"
    /\ \E input \in ConfigInputs :
          IF SchemaAccepts(input)
          THEN \E parsed \in {SchemaParse(input)} :
                  /\ config' = [classificationLabels |-> parsed.classificationLabels,
                                confidenceThreshold |-> parsed.confidenceThreshold]
                  /\ enableTableExtraction' = parsed.enableTableExtraction
                  /\ threshold' = parsed.confidenceThreshold
                  /\ labels' = parsed.classificationLabels
                  /\ error' = ""
                  /\ pc' = "ready"
          ELSE /\ error' = "ZodError"
               /\ pc' = "unbuilt"
               /\ UNCHANGED <<config, enableTableExtraction, threshold, labels>>
    /\ UNCHANGED <<text, fieldVars, tables, paragraphs, idx, contents, scorerCalls,
                   classifications, confidence, sheet, exportVars, classifierVars, confVars, callVars, filePath, parser,
                   isInitialized, file>>

\* setConfidenceThreshold accepts the threshold
ThresholdInRange(thr) == ~(thr < 0 \/ thr > Unit)

\* updateConfig(config)
UpdateConfig ==
    /\ pc = "ready"
    /\ \E partial \in ConfigInputs : \E spread \in {Spread(partial)} :
          IF ~SchemaAccepts(spread)
          THEN /\ error' = "ZodError"
               /\ UNCHANGED <<config, enableTableExtraction, threshold, labels>>
          ELSE \E parsed \in {SchemaParse(spread)} :
                  /\ config' = [classificationLabels |-> parsed.classificationLabels,
                                confidenceThreshold |-> parsed.confidenceThreshold]
                  /\ enableTableExtraction' = parsed.enableTableExtraction
                  /\ IF /\ IsGiven(partial.confidenceThreshold)
                        /\ ~ThresholdInRange(partial.confidenceThreshold[2])
                     THEN /\ error' = "Confidence threshold must be between 0 and 1"
                          /\ UNCHANGED <<threshold, labels>>
                     ELSE /\ threshold' = FieldOr(partial.confidenceThreshold, threshold)
                          /\ IF /\ IsGiven(partial.classificationLabels)
                                /\ Len(partial.classificationLabels[2]) = 0
                             THEN /\ error' = "Classification labels cannot be empty"
                                  /\ UNCHANGED labels
                             ELSE /\ labels' = FieldOr(partial.classificationLabels, labels)
                                  /\ error' = ""
    /\ UNCHANGED <<pc, text, fieldVars, tables, paragraphs, idx, contents, scorerCalls,
                   classifications, confidence, sheet, exportVars, classifierVars, confVars, callVars, filePath, parser,
                   isInitialized, file>>

\* the last component of a path, the separators at its end left out
Basename(path) ==
    LET last == MaxOf({i \in 1..Len(path) : path[i] # "/"})
        slashes == {i \in 1..last : path[i] = "/"}
    IN  Sub(path, MaxOf(slashes) + 1, last)

\* path.extname: from the last dot of the last component, when that dot is
\* not its first character
extname(path) ==
    LET base == Basename(path)
        dots == {i \in 2..Len(base) : base[i] = "."}
    IN  IF dots = {} \/ base = <<".", ".">> THEN <<>>
        ELSE Sub(base, MaxOf(dots), Len(base))

\* .replace('.', ''): the first dot is taken out
RemoveFirstDot(s) ==
    LET dots == {i \in 1..Len(s) : s[i] = "."}
    IN  IF dots = {} THEN s
        ELSE Sub(s, 1, MinOf(dots) - 1) \o Sub(s, MinOf(dots) + 1, Len(s))

\* path.extname(filePath).toLowerCase().replace('.', '')
Extension(path) == RemoveFirstDot(ToLowerCase(extname(path)))

\* every extension but docx taken for a PDF
AssumePdf(path) ==
    IF Extension(path) = <<"d", "o", "c", "x">> THEN "DOCX" ELSE "PDF"

\* getDocumentType; "unsupported" where it throws
getDocumentType(path) ==
    IF Extension(path) = <<"d", "o", "c", "x">> THEN "DOCX"
    ELSE IF Extension(path) = <<"p", "d", "f">> THEN "PDF"
    ELSE "unsupported"

\* the paths extract is called with
Paths ==
    {<<"a", ".", "p", "d", "f">>,
     <<"A", ".", "P", "D", "F">>,
     <<"r", ".", "D", "o", "c", "x">>,
     <<"n", ".", "t", "x", "t">>,
     <<"p", "d", "f">>,
     <<".", "p", "d", "f">>,
     <<"a", ".", "p", "d", "f", ".", "b", "a", "k">>,
     <<"d", ".", "p", "d", "f", "/", "a">>}

MaxDocxTables == 1

\* the rows of a w:tbl: two rows of two cells, or one row
DocxGrids ==
    {<<<<<<"K", "e", "y">>, <<"V", "a", "l">>>>, <<<<"a">>, <<"1">>>>>>,
     <<<<<<"a">>, <<"1">>>>>>}

\* the files extract may find at the path
Files ==
    {[IntactFile EXCEPT !.readable = FALSE],
     [IntactFile EXCEPT !.unzips = FALSE],
     [IntactFile EXCEPT !.hasXml = FALSE]}
        \cup {[IntactFile EXCEPT !.tablesThrow = t, !.grids = g] :
                 t \in BOOLEAN, g \in SeqUpTo(DocxGrids, MaxDocxTables)}

\* extract up to the call of parser.parse; loads tells whether the model
\* loads when initialize runs; the file is what the parser will find at the
\* path
Extract ==
    /\ pc = "ready"
    /\ \E path \in Paths, loads \in BOOLEAN :
          /\ filePath' = path
          /\ IF ~isInitialized /\ ~loads
             THEN /\ error' = "Failed to initialize classifier"
                  /\ UNCHANGED <<isInitialized, parser, pc, file>>
             ELSE /\ isInitialized' = TRUE
                  /\ IF getDocumentType(path) = "unsupported"
                     THEN /\ error' = "Unsupported file type"
                          /\ UNCHANGED <<parser, pc, file>>
                     ELSE /\ parser' = getDocumentType(path)
                          /\ file' \in Files
                          /\ error' = ""
                          /\ pc' = "doc"
    /\ UNCHANGED <<text, fieldVars, pipeVars, exportVars, classifierVars, confVars, callVars, config, labels>>

\* DocxParser.extractTables, from the rows of each w:tbl: a table without rows
\* gives nothing, the first row is taken for the headers when more rows follow
DocxTable(grid) ==
    IF Len(grid) > 1
    THEN [hasHeaders |-> TRUE, headers |-> grid[1], rows |-> Sub(grid, 2, Len(grid))]
    ELSE [hasHeaders |-> FALSE, headers |-> <<>>, rows |-> grid]

docxExtractTables(found) ==
    IF found.tablesThrow THEN <<>>
    ELSE [t \in 1..Len(found.grids) |-> DocxTable(found.grids[t])]

\* parser.parse(filePath) of DocxParser
ParseDocx ==
    /\ pc = "doc"
    /\ parser = "DOCX"
    /\ IF file.readable /\ file.unzips /\ file.hasXml
       THEN /\ tables' = docxExtractTables(file)
            /\ pc' = "parsed"
            /\ UNCHANGED error
       ELSE /\ error' = "Failed to parse DOCX file"
            /\ pc' = "ready"
            /\ UNCHANGED tables
    /\ UNCHANGED <<text, fieldVars, threshold, enableTableExtraction, paragraphs, idx,
                   contents, scorerCalls, classifications, confidence, sheet, exportVars, classifierVars, confVars,
                   callVars, config, labels, filePath, parser, isInitialized, file>>

InitExtractor ==
    /\ pc = "new"
    /\ text = <<>>
    /\ config = [classificationLabels |-> classificationLabels,
                 confidenceThreshold |-> DefaultThreshold]
    /\ labels = classificationLabels
    /\ error = ""
    /\ filePath = <<>>
    /\ parser = "none"
    /\ isInitialized = FALSE
    /\ file = IntactFile
    /\ FieldsIdle
    /\ PipelineIdle
    /\ ConfidenceIdle
    /\ CallsIdle
    /\ ExportIdle
    /\ ClassifierIdle

NextExtractor ==
    \/ Construct
    \/ UpdateConfig
    \/ Extract

SpecExtractor == InitExtractor /\ [][NextExtractor]_vars

\* an extractor of the default configuration, from its first call of
\* extract to the return of parse, for a document without text and for one
\* whose text is two table lines
InitParse ==
    /\ pc = "ready"
    /\ text \in {<<>>, Join(<<<<"1", "\t", "2">>, <<"1", "\t", "2">>>>, <<"\n">>)}
    /\ config = [classificationLabels |-> classificationLabels,
                 confidenceThreshold |-> DefaultThreshold]
    /\ labels = classificationLabels
    /\ threshold = DefaultThreshold
    /\ enableTableExtraction = TRUE
    /\ error = ""
    /\ filePath = <<>>
    /\ parser = "none"
    /\ isInitialized = FALSE
    /\ file = IntactFile
    /\ tables = <<>>
    /\ paragraphs = <<>>
    /\ idx = 0
    /\ contents = <<>>
    /\ scorerCalls = <<>>
    /\ classifications = <<>>
    /\ confidence = 0
    /\ sheet = <<>>
    /\ FieldsIdle
    /\ ConfidenceIdle
    /\ CallsIdle
    /\ ExportIdle
    /\ ClassifierIdle

NextParse ==
    \/ Extract
    \/ Parse
    \/ ParseDocx

SpecParse == InitParse /\ [][NextParse]_vars

\* C17: a threshold outside [0,1] and an empty list of labels are rejected
\* with an error by the constructor and by updateConfig, so that no
\* extraction runs with an empty list of labels or with a threshold outside
\* [0,1].
C17_ConfigurationRejected ==
    /\ pc \in {"ready", "doc", "parsed"} =>
          /\ config.classificationLabels # <<>>
          /\ config.confidenceThreshold \in 0..Unit
    /\ pc \in {"doc", "parsed"} =>
          /\ labels # <<>>
          /\ threshold \in 0..Unit

\* the paths whose extension is docx or pdf in some case, and the others
SupportedPaths == {<<"a", ".", "p", "d", "f">>, <<"A", ".", "P", "D", "F">>, <<"r", ".", "D", "o", "c", "x">>}

UnsupportedPaths == {<<"n", ".", "t", "x", "t">>,
     <<"p", "d", "f">>,
     <<".", "p", "d", "f">>,
     <<"a", ".", "p", "d", "f", ".", "b", "a", "k">>,
     <<"d", ".", "p", "d", "f", "/", "a">>}

\* C18 as stated: extract with a path whose extension is neither docx nor
\* pdf, in any case of the letters, fails with the error of an unsupported
\* file type, and parse is not called.
C18_UnsupportedTypeError ==
    [][(Extract /\ filePath' \in UnsupportedPaths) =>
          (error' = "Unsupported file type" /\ pc' = "ready")]_vars

\* C18: extract with a path whose extension is neither docx nor pdf, in any
\* case of the letters, fails and parse is not called for it; the error is
\* that of an unsupported file type once the model of the classifier is
\* loaded, and that of the initialization when the model does not load.  A
\* path with extension docx or pdf in any case is not rejected as unsupported.
C18_UnsupportedNeverParsed ==
    [][/\ pc' \in {"doc", "parsed"} => filePath' \notin UnsupportedPaths
       /\ (Extract /\ filePath' \in UnsupportedPaths) =>
             /\ pc' = "ready"
             /\ UNCHANGED <<text, tables, parser>>
             /\ isInitialized' => error' = "Unsupported file type"
             /\ ~isInitialized' => error' = "Failed to initialize classifier"
       /\ (Extract /\ filePath' \in SupportedPaths /\ isInitialized') =>
             (pc' = "doc" /\ error' = "")]_vars

\* extract was called with a path of an unsupported extension, the model
\* loaded, and the call failed before any parse
C18_Witness ==
    /\ pc = "ready"
    /\ filePath \in UnsupportedPaths
    /\ isInitialized
    /\ error = "Unsupported file type"
    /\ parser = "none"

(***************************************************************************)
(* Claims about a document that cannot be decoded                          *)
(***************************************************************************)
\* C19: a parser never returns a result of which a part is missing without
\* saying so: when a part of the decoding fails, be it the text or the
\* tables, parse throws and returns no ParsedDocument whose failed part is
\* missing or empty.
C19_NoPartialResult ==
    pc = "parsed" =>
        /\ file.readable
        /\ parser = "DOCX" =>
              /\ file.unzips
              /\ file.hasXml
              /\ ~file.tablesThrow
              /\ Len(tables) = Len(file.grids)

(***************************************************************************)
(* JsonExporter.  A JavaScript value is a tagged tuple: a string, a number *)
(* (held in thousandths, as the confidences are), NaN, undefined (the      *)
(* definition Undefined), null, an array, or an object with its members in *)
(* insertion order.                                                        *)
(***************************************************************************)
Str(s) == <<"str", s>>

Num(n) == <<"num", n>>

NotANumber == <<"nan">>

Null == <<"null">>

Arr(xs) == <<"arr", xs>>

Obj(members) == <<"obj", members>>

\* what JSON.parse does with a text that is no JSON: a SyntaxError
SyntaxError == <<"error">>

DigitChars == <<"0", "1", "2", "3", "4", "5", "6", "7", "8", "9">>

RECURSIVE FormatInt(_)
\* the decimal digits of a natural number
FormatInt(k) ==
    IF k < 10 THEN <<DigitChars[k + 1]>>
    ELSE FormatInt(k \div 10) \o <<DigitChars[(k % 10) + 1]>>

\* Number::toString of a number of thousandths that is not negative: the
\* digits after the point end at the last one that is not 0
FormatNumber(n) ==
    LET frac == n % Unit
        d1 == DigitChars[(frac \div 100) + 1]
        d2 == DigitChars[((frac \div 10) % 10) + 1]
        d3 == DigitChars[(frac % 10) + 1]
    IN  FormatInt(n \div Unit) \o
            (IF frac = 0 THEN <<>>
             ELSE IF frac % 100 = 0 THEN <<".", d1>>
             ELSE IF frac % 10 = 0 THEN <<".", d1, d2>>
             ELSE <<".", d1, d2, d3>>)

\* the characters JSON.stringify writes with a backslash
EscapedChars == {"\"", "\\", "\n", "\t", "\r"}

EscapeChar(c) ==
    CASE c = "\"" -> <<"\\", "\"">>
      [] c = "\\" -> <<"\\", "\\">>
      [] c = "\n" -> <<"\\", "n">>
      [] c = "\t" -> <<"\\", "t">>
      [] c = "\r" -> <<"\\", "r">>

\* a string written without any escape
Unescaped(s) == s

RECURSIVE EscapeString(_)
\* the characters of a string between the quotes of its JSON form
EscapeString(s) ==
    LET at == {i \in 1..Len(s) : s[i] \in EscapedChars}
    IN  IF at = {} THEN s
        ELSE Sub(s, 1, MinOf(at) - 1) \o EscapeChar(s[MinOf(at)])
                 \o EscapeString(Sub(s, MinOf(at) + 1, Len(s)))

QuoteString(s) == <<"\"">> \o EscapeString(s) \o <<"\"">>

\* the line break and the indentation before an item at a level of nesting,
\* nothing in the compact form
Gap(pretty, level) ==
    IF pretty THEN <<"\n">> \o [i \in 1..(2 * level) |-> " "] ELSE <<>>

\* the members of an object that JSON.stringify writes
Written(members) == SelectSeq(members, LAMBDA kv : kv[2] # Undefined)

RECURSIVE Stringify(_, _, _)
\* JSON.stringify(value, null, 2) when pretty, JSON.stringify(value) when
\* not, of a value nested level deep that is not undefined
Stringify(value, pretty, level) ==
    CASE value[1] = "str" -> QuoteString(value[2])
      [] value[1] = "num" -> FormatNumber(value[2])
      [] value[1] \in {"null", "nan"} -> <<"n", "u", "l", "l">>
      [] value[1] = "arr" ->
            IF value[2] = <<>> THEN <<"[", "]">>
            ELSE <<"[">> \o Gap(pretty, level + 1)
                   \o Join([i \in 1..Len(value[2]) |->
                              IF value[2][i] = Undefined THEN <<"n", "u", "l", "l">>
                              ELSE Stringify(value[2][i], pretty, level + 1)],
                           <<",">> \o Gap(pretty, level + 1))
                   \o Gap(pretty, level) \o <<"]">>
      [] value[1] = "obj" ->
            IF Written(value[2]) = <<>> THEN <<"{", "}">>
            ELSE <<"{">> \o Gap(pretty, level + 1)
                   \o Join([i \in 1..Len(Written(value[2])) |->
                              QuoteString(Written(value[2])[i][1])
                                  \o (IF pretty THEN <<":", " ">> ELSE <<":">>)
                                  \o Stringify(Written(value[2])[i][2], pretty, level + 1)],
                           <<",">> \o Gap(pretty, level + 1))
                   \o Gap(pretty, level) \o <<"}">>

\* the white space of the JSON grammar
JsonSpace == {" ", "\t", "\n", "\r"}

\* first index >= p of s that holds no white space, Len(s) + 1 when none
SkipJsonSpace(s, p) ==
    LET at == {i \in p..Len(s) : s[i] \notin JsonSpace}
    IN  IF at = {} THEN Len(s) + 1 ELSE MinOf(at)

\* the character of s at p, "" past the end
At(s, p) == IF p \in 1..Len(s) THEN s[p] ELSE ""

\* a failed parse
Failed == <<SyntaxError, 0>>

\* the character an escape stands for, "" for one the model does not write
Unescape(c) ==
    CASE c = "\"" -> "\""
      [] c = "\\" -> "\\"
      [] c = "n" -> "\n"
      [] c = "t" -> "\t"
      [] c = "r" -> "\r"
      [] OTHER -> ""

RECURSIVE ParseString(_, _, _)
\* a string whose opening quote is before p; acc is what was read of it.
\* A line break, a tab or a carriage return inside the quotes is an error.
ParseString(s, p, acc) ==
    LET at == {i \in p..Len(s) : s[i] \in {"\"", "\\"}}
    IN  IF at = {} THEN Failed
        ELSE IF \E j \in p..(MinOf(at) - 1) : s[j] \in {"\n", "\t", "\r"} THEN Failed
        ELSE IF s[MinOf(at)] = "\""
        THEN <<Str(acc \o Sub(s, p, MinOf(at) - 1)), MinOf(at) + 1>>
        ELSE IF Unescape(At(s, MinOf(at) + 1)) = "" THEN Failed
        ELSE ParseString(s, MinOf(at) + 2,
                         acc \o Sub(s, p, MinOf(at) - 1)
                             \o <<Unescape(At(s, MinOf(at) + 1))>>)

\* the thousandths a run of digits after the point stands for
Thousandths(ds) ==
    IndexValue(Sub(ds \o <<"0", "0", "0">>, 1, 3))

\* a number that starts at p: digits, then maybe a point and up to three
\* digits
ParseNumber(s, p) ==
    LET stop == MinOf({i \in p..(Len(s) + 1) : At(s, i) \notin Digits \cup {"."}})
        dots == {i \in p..(stop - 1) : s[i] = "."}
        wholeEnd == IF dots = {} THEN stop - 1 ELSE MinOf(dots) - 1
    IN  IF wholeEnd < p \/ Cardinality(dots) > 1 THEN Failed
        ELSE IF dots # {} /\ (MinOf(dots) = stop - 1 \/ stop - 1 - MinOf(dots) > 3) THEN Failed
        ELSE <<Num(IndexValue(Sub(s, p, wholeEnd)) * Unit
                        + (IF dots = {} THEN 0
                           ELSE Thousandths(Sub(s, MinOf(dots) + 1, stop - 1)))),
               stop>>

RECURSIVE ParseValue(_, _)
RECURSIVE ElementLoop(_, _, _)
RECURSIVE MemberLoop(_, _, _)

\* after an element r of an array: a comma and more elements, or the end
AfterElement(s, r, acc) ==
    IF r[1] = SyntaxError THEN Failed
    ELSE IF At(s, SkipJsonSpace(s, r[2])) = ","
    THEN ElementLoop(s, SkipJsonSpace(s, r[2]) + 1, Append(acc, r[1]))
    ELSE IF At(s, SkipJsonSpace(s, r[2])) = "]"
    THEN <<Arr(Append(acc, r[1])), SkipJsonSpace(s, r[2]) + 1>>
    ELSE Failed

\* the elements of an array from p on, acc the elements read
ElementLoop(s, p, acc) == AfterElement(s, ParseValue(s, p), acc)

\* after the value r of the member with key k: a comma and more members, or
\* the end
AfterMember(s, k, r, acc) ==
    IF r[1] = SyntaxError THEN Failed
    ELSE IF At(s, SkipJsonSpace(s, r[2])) = ","
    THEN MemberLoop(s, SkipJsonSpace(s, r[2]) + 1, Append(acc, <<k, r[1]>>))
    ELSE IF At(s, SkipJsonSpace(s, r[2])) = "}"
    THEN <<Obj(Append(acc, <<k, r[1]>>)), SkipJsonSpace(s, r[2]) + 1>>
    ELSE Failed

\* after the key k of a member: a colon and the value
AfterKey(s, k, acc) ==
    IF k[1] = SyntaxError THEN Failed
    ELSE IF At(s, SkipJsonSpace(s, k[2])) # ":" THEN Failed
    ELSE AfterMember(s, k[1][2], ParseValue(s, SkipJsonSpace(s, k[2]) + 1), acc)

\* the members of an object from p on, acc the members read
MemberLoop(s, p, acc) ==
    IF At(s, SkipJsonSpace(s, p)) # "\"" THEN Failed
    ELSE AfterKey(s, ParseString(s, SkipJsonSpace(s, p) + 1, <<>>), acc)

\* the value that starts at the first character after the white space at p,
\* and the index after it
ParseValueAt(s, p) ==
    CASE At(s, p) = "\"" -> ParseString(s, p + 1, <<>>)
      [] At(s, p) \in Digits -> ParseNumber(s, p)
      [] At(s, p) = "n" ->
            IF Sub(s, p, p + 3) = <<"n", "u", "l", "l">> THEN <<Null, p + 4>> ELSE Failed
      [] At(s, p) = "[" ->
            IF At(s, SkipJsonSpace(s, p + 1)) = "]"
            THEN <<Arr(<<>>), SkipJsonSpace(s, p + 1) + 1>>
            ELSE ElementLoop(s, p + 1, <<>>)
      [] At(s, p) = "{" ->
            IF At(s, SkipJsonSpace(s, p + 1)) = "}"
            THEN <<Obj(<<>>), SkipJsonSpace(s, p + 1) + 1>>
            ELSE MemberLoop(s, p + 1, <<>>)
      [] OTHER -> Failed

ParseValue(s, p) == ParseValueAt(s, SkipJsonSpace(s, p))

\* the value after which only white space follows
WholeText(s, r) ==
    IF r[1] # SyntaxError /\ SkipJsonSpace(s, r[2]) > Len(s) THEN r[1] ELSE SyntaxError

\* JSON.parse
JSONparse(s) == WholeText(s, ParseValue(s, 1))

\* the characters of a key or of a type
Chars(word) ==
    CASE word = "id" -> <<"i", "d">>
      [] word = "type" -> <<"t", "y", "p", "e">>
      [] word = "content" -> <<"c", "o", "n", "t", "e", "n", "t">>
      [] word = "confidence" -> <<"c", "o", "n", "f", "i", "d", "e", "n", "c", "e">>
      [] word = "position" -> <<"p", "o", "s", "i", "t", "i", "o", "n">>
      [] word = "tableData" -> <<"t", "a", "b", "l", "e", "D", "a", "t", "a">>
      [] word = "metadata" -> <<"m", "e", "t", "a", "d", "a", "t", "a">>
      [] word = "paragraph" -> <<"p", "a", "r", "a", "g", "r", "a", "p", "h">>
      [] word = "page" -> <<"p", "a", "g", "e">>
      [] word = "headers" -> <<"h", "e", "a", "d", "e", "r", "s">>
      [] word = "rows" -> <<"r", "o", "w", "s">>
      [] word = "contents" -> <<"c", "o", "n", "t", "e", "n", "t", "s">>
      [] word = "summary" -> <<"s", "u", "m", "m", "a", "r", "y">>
      [] word = "totalItems" -> <<"t", "o", "t", "a", "l", "I", "t", "e", "m", "s">>
      [] word = "byType" -> <<"b", "y", "T", "y", "p", "e">>
      [] word = "fileName" -> <<"f", "i", "l", "e", "N", "a", "m", "e">>
      [] word = "fileType" -> <<"f", "i", "l", "e", "T", "y", "p", "e">>
      [] word = "extractedAt" -> <<"e", "x", "t", "r", "a", "c", "t", "e", "d", "A", "t">>
      [] word = "totalPages" -> <<"t", "o", "t", "a", "l", "P", "a", "g", "e", "s">>
      [] word = "totalParagraphs" -> <<"t", "o", "t", "a", "l", "P", "a", "r", "a", "g", "r", "a", "p", "h", "s">>
      [] word = "business_rule" -> <<"b", "u", "s", "i", "n", "e", "s", "s", "_", "r", "u", "l", "e">>
      [] word = "formula" -> <<"f", "o", "r", "m", "u", "l", "a">>
      [] word = "condition" -> <<"c", "o", "n", "d", "i", "t", "i", "o", "n">>
      [] word = "definition" -> <<"d", "e", "f", "i", "n", "i", "t", "i", "o", "n">>
      [] word = "table" -> <<"t", "a", "b", "l", "e">>
      [] word = "text" -> <<"t", "e", "x", "t">>
      [] word = "constructor" -> <<"c", "o", "n", "s", "t", "r", "u", "c", "t", "o", "r">>
      [] word = "__proto__" -> <<"_", "_", "p", "r", "o", "t", "o", "_", "_">>

\* a TableData
TableValue(t) ==
    Obj(<<<<Chars("headers"),
            IF t.hasHeaders THEN Arr([c \in 1..Len(t.headers) |-> Str(t.headers[c])])
            ELSE Undefined>>,
          <<Chars("rows"),
            Arr([r \in 1..Len(t.rows) |->
                    Arr([c \in 1..Len(t.rows[r]) |-> Str(t.rows[r][c])])])>>>>)

\* content.position: paragraph and page of a unit of the text, page alone of
\* a unit of a table; no page is known to extract
PositionValue(u) ==
    Obj((IF u.paragraph >= 0 THEN <<<<Chars("paragraph"), Num(u.paragraph * Unit)>>>> ELSE <<>>)
            \o <<<<Chars("page"), Undefined>>>>)

\* the object prepareOutputData makes of a unit; the id is written with the
\* digits of its ordinal
UnitValue(u) ==
    Obj(<<<<Chars("id"), Str(FormatInt(u.id))>>,
          <<Chars("type"), Str(Chars(u.type))>>,
          <<Chars("content"), Str(u.content)>>,
          <<Chars("confidence"), Num(u.confidence)>>,
          <<Chars("position"), PositionValue(u)>>,
          <<Chars("tableData"),
            IF u.tableData = <<>> THEN Undefined ELSE TableValue(u.tableData[1])>>,
          <<Chars("metadata"), Undefined>>>>)

\* result.summary
SummaryValue(sm) ==
    Obj(<<<<Chars("totalItems"), Num(sm.totalItems * Unit)>>,
          <<Chars("byType"),
            Obj([i \in 1..Len(sm.byType) |->
                    <<Chars(sm.byType[i].key),
                      IF sm.byType[i].value.nan THEN NotANumber
                      ELSE Num(sm.byType[i].value.n * Unit)>>])>>>>)

\* output.metadata of the result of a PDF of one page
MetadataValue ==
    Obj(<<<<Chars("fileName"), Str(<<"a", ".", "p", "d", "f">>)>>,
          <<Chars("fileType"), Str(<<"p", "d", "f">>)>>,
          <<Chars("extractedAt"),
            Str(<<"2", "0", "2", "4", "-", "0", "1", "-", "0", "1", "T", "0", "0", ":", "0", "0", ":", "0", "0", ".", "0", "0", "0", "Z">>)>>,
          <<Chars("totalPages"), Num(Unit)>>,
          <<Chars("totalParagraphs"), Undefined>>>>)

\* JsonExporter.prepareOutputData
prepareOutputData(cs, sm, opts) ==
    Obj((IF opts.includeMetadata THEN <<<<Chars("metadata"), MetadataValue>>>> ELSE <<>>)
            \o <<<<Chars("contents"), Arr([i \in 1..Len(cs) |-> UnitValue(cs[i])])>>>>
            \o <<<<Chars("summary"), SummaryValue(sm)>>>>)

\* JsonExporter.export
ExportJson ==
    /\ pc = "summary"
    /\ \E opts \in [prettyPrint : BOOLEAN, includeMetadata : BOOLEAN] :
          /\ options' = opts
          /\ json' = Stringify(prepareOutputData(contents, summary, opts), opts.prettyPrint, 0)
    /\ pc' = "json"
    /\ UNCHANGED <<text, fieldVars, pipeVars, classifierVars, confVars, callVars, extractorVars, csv>>

MaxJsonTables == 2

\* the paragraph of a document: one with quotes, one with a backslash
JsonParagraphs ==
    {<<"S", "a", "y", " ", "\"", "h", "i", "\"", " ", "t", "o", " ", "a", "l", "l">>,
     <<"C", ":", "\\", "t", "e", "m", "p", " ", "i", "s", " ", "u", "s", "e", "d">>}

\* the tables of a document: one with headers, one without
JsonTables ==
    {[hasHeaders |-> TRUE, headers |-> <<<<"K", "e", "y">>, <<"V", "a", "l">>>>,
      rows |-> <<<<<<"a">>, <<"1">>>>>>],
     [hasHeaders |-> FALSE, headers |-> <<>>,
      rows |-> <<<<<<"1">>, <<"2">>>>, <<<<"3">>, <<>>>>>>]}

\* the contents of a result: the unit of the paragraph, if any, then the
\* units of up to MaxJsonTables tables
JsonContents ==
    {allContents(ts, analyzeTables(tbls, Len(ts))) :
        ts \in {<<>>} \cup {<<TextUnit(1, "business_rule", p, c, 0)>> :
                                p \in JsonParagraphs, c \in {750, Unit}},
        tbls \in SeqUpTo(JsonTables, MaxJsonTables)}

InitJson ==
    /\ pc = "contents"
    /\ contents \in JsonContents
    /\ text = <<>>
    /\ tables = <<>>
    /\ threshold = 0
    /\ enableTableExtraction = FALSE
    /\ paragraphs = <<>>
    /\ idx = 0
    /\ scorerCalls = <<>>
    /\ classifications = <<>>
    /\ confidence = 0
    /\ sheet = <<>>
    /\ FieldsIdle
    /\ ConfidenceIdle
    /\ CallsIdle
    /\ ExportIdle
    /\ ClassifierIdle
    /\ ExtractorIdle

NextJson ==
    \/ CalculateSummary
    \/ ExportJson

SpecJson == InitJson /\ [][NextJson]_vars

\* the value of a member of an object, undefined when it has none
Member(obj, word) ==
    IF \E i \in 1..Len(obj[2]) : obj[2][i][1] = Chars(word)
    THEN obj[2][CHOOSE i \in 1..Len(obj[2]) : obj[2][i][1] = Chars(word)][2]
    ELSE Undefined

\* the parsed object v has the id, type, content, confidence, position and
\* tableData of the unit u
SameUnit(v, u) ==
    /\ v[1] = "obj"
    /\ Member(v, "id") = Str(FormatInt(u.id))
    /\ Member(v, "type") = Str(Chars(u.type))
    /\ Member(v, "content") = Str(u.content)
    /\ Member(v, "confidence") = Num(u.confidence)
    /\ Member(v, "position") =
           Obj(IF u.paragraph >= 0
               THEN <<<<Chars("paragraph"), Num(u.paragraph * Unit)>>>> ELSE <<>>)
    /\ Member(v, "tableData") =
           (IF u.tableData = <<>> THEN Undefined
            ELSE Obj(Written(TableValue(u.tableData[1])[2])))
    /\ \A i \in 1..Len(v[2]) :
          v[2][i][1] \in {Chars(w) : w \in {"id", "type", "content", "confidence",
                                            "position", "tableData"}}

\* the parsed array holds the units cs, one for one and in their order
SameContents(parsed, cs) ==
    /\ parsed[1] = "arr"
    /\ Len(parsed[2]) = Len(cs)
    /\ \A i \in 1..Len(cs) : SameUnit(parsed[2][i], cs[i])

\* the parsed text is an object whose contents are the units cs
SameResult(parsed, cs) ==
    /\ parsed[1] = "obj"
    /\ SameContents(Member(parsed, "contents"), cs)

\* C20: the contents array of the JSON export holds one entry for every
\* unit of the result, in the same order, with the same id, type, content,
\* confidence, position and tableData, so that parsing the exported text
\* gives the same contents again, whatever prettyPrint and includeMetadata
\* are.
C20_JsonRoundTrip ==
    pc = "json" => SameResult(JSONparse(json), contents)

\* a pretty-printed export with metadata of a result of three units: a
\* paragraph with quotes, a table with headers, a table without
C20_Witness ==
    /\ pc = "json"
    /\ options.prettyPrint
    /\ options.includeMetadata
    /\ Len(contents) = 3
    /\ "\"" \in {contents[1].content[i] : i \in 1..Len(contents[1].content)}
    /\ contents[2].tableData # <<>>
    /\ contents[2].tableData[1].hasHeaders
    /\ ~contents[3].tableData[1].hasHeaders
    /\ "\n" \in {json[i] : i \in 1..Len(json)}

(***************************************************************************)
(* ExcelExporter.addStructuredDataSheet on the contents of a result        *)
(***************************************************************************)
MaxSheetUnits == 2

\* the content of a unit: a line with a field, keys of letters and keys of
\* digits, or a line with none
SheetLines ==
    {<<"k", ":", " ", "a">>,
     <<"k", ":", " ", "b", ",", " ", "c">>,
     <<"7", ":", " ", "b">>,
     <<"1", "0", ":", " ", "a">>,
     <<"2", ":", " ", "a", ";", " ", "k", ":", " ", "c">>,
     ProtoKey \o <<":", " ", "a">>,
     <<"p", "l", "a", "i", "n">>}

SheetContents ==
    {[i \in 1..Len(ls) |-> TextUnit(i, "text", ls[i], Unit, i - 1)] :
        ls \in SeqUpTo(SheetLines, MaxSheetUnits)}

InitSheet ==
    /\ pc = "extracted"
    /\ contents \in SheetContents
    /\ text = <<>>
    /\ tables = <<>>
    /\ threshold = 0
    /\ enableTableExtraction = FALSE
    /\ paragraphs = <<>>
    /\ idx = 0
    /\ scorerCalls = <<>>
    /\ classifications = <<>>
    /\ confidence = 0
    /\ sheet = <<>>
    /\ FieldsIdle
    /\ ConfidenceIdle
    /\ CallsIdle
    /\ ExportIdle
    /\ ClassifierIdle
    /\ ExtractorIdle

NextSheet == ExportExcel

SpecSheet == InitSheet /\ [][NextSheet]_vars

\* the fields detected in the contents of the result, unit by unit
DetectedFields == extractFromMultiple([i \in 1..Len(contents) |-> contents[i].content])

\* the keys of a list of fields, each once, in the order they are first seen
KeysFirstSeen(fs) == FirstOccurrences([i \in 1..Len(fs) |-> fs[i].key])

\* C21: the header row of the sheet 'Structured Data' lists the keys of the
\* detected fields in first-seen order, whatever the keys are (keys made of
\* digits included), and is followed by one data row per reshaped row; when
\* no field is detected the sheet holds the single informational row.
C21_HeaderFirstSeen ==
    pc = "exported" =>
        IF DetectedFields = <<>>
        THEN sheet = <<<<NoDataMessage>>>>
        ELSE /\ Len(sheet) = 1 + Len(toFlatStructure(DetectedFields))
             /\ sheet[1] = KeysFirstSeen(DetectedFields)

(***************************************************************************)
(* CsvExporter: generateCsv and escapeCsvRow                               *)
(***************************************************************************)
RECURSIVE DoubleQuotes(_)
\* cell.replace(/"/g, '""'), from one double quote to the next
DoubleQuotes(cell) ==
    LET at == {i \in 1..Len(cell) : cell[i] = "\""}
    IN  IF at = {} THEN cell
        ELSE LET i == MinOf(at)
             IN  Sub(cell, 1, i) \o <<"\"">> \o DoubleQuotes(Sub(cell, i + 1, Len(cell)))

\* a cell written as it is
WrittenAsIs(cell) == cell

\* the function escapeCsvRow maps over the cells
escapeCsvCell(cell) ==
    IF \E i \in 1..Len(cell) : cell[i] \in {",", "\"", "\n"}
    THEN <<"\"">> \o DoubleQuotes(cell) \o <<"\"">>
    ELSE cell

escapeCsvRow(row) == Join([i \in 1..Len(row) |-> escapeCsvCell(row[i])], <<",">>)

CsvHeaders ==
    <<<<"I", "D">>,
      <<"T", "y", "p", "e">>,
      <<"C", "o", "n", "t", "e", "n", "t">>,
      <<"C", "o", "n", "f", "i", "d", "e", "n", "c", "e">>,
      <<"P", "a", "g", "e">>,
      <<"P", "a", "r", "a", "g", "r", "a", "p", "h">>,
      <<"H", "a", "s", " ", "T", "a", "b", "l", "e", " ", "D", "a", "t", "a">>>>

\* the cells of the row of a unit; no page is known to extract
CsvCells(u) ==
    <<FormatInt(u.id),
      Chars(u.type),
      ReplaceChar(u.content, "\n", " "),
      FormatNumber(u.confidence),
      <<>>,
      IF u.paragraph >= 0 THEN FormatInt(u.paragraph) ELSE <<>>,
      IF u.tableData # <<>> THEN <<"Y", "e", "s">> ELSE <<"N", "o">>>>

\* the lines written for the metadata of the result of a PDF of one page
CsvMetadataRows ==
    <<<<>>,
      <<"#", " ", "M", "e", "t", "a", "d", "a", "t", "a">>,
      <<"#", " ", "F", "i", "l", "e", " ", "N", "a", "m", "e", ":", " ", "a",
      ".", "p", "d", "f">>,
      <<"#", " ", "F", "i", "l", "e", " ", "T", "y", "p", "e", ":", " ", "p",
      "d", "f">>,
      <<"#", " ", "E", "x", "t", "r", "a", "c", "t", "e", "d", " ", "A", "t",
      ":", " ", "2", "0", "2", "4", "-", "0", "1", "-", "0", "1", "T", "0",
      "0", ":", "0", "0", ":", "0", "0", ".", "0", "0", "0", "Z">>,
      <<"#", " ", "T", "o", "t", "a", "l", " ", "P", "a", "g", "e", "s", ":",
      " ", "1">>,
      <<"#", " ", "T", "o", "t", "a", "l", " ", "P", "a", "r", "a", "g", "r",
      "a", "p", "h", "s", ":", " ", "N", "/", "A">>>>

\* the lines written for result.summary
CsvSummaryRows(sm) ==
    <<<<>>,
      <<"#", " ", "S", "u", "m", "m", "a", "r", "y">>,
      <<"#", " ", "T", "o", "t", "a", "l", " ", "I", "t", "e", "m", "s", ":",
      " ">> \o FormatInt(sm.totalItems),
      <<"#", " ", "B", "y", " ", "T", "y", "p", "e", ":">>>>
    \o [i \in 1..Len(sm.byType) |->
            <<"#", " ", " ", " ">> \o Chars(sm.byType[i].key) \o <<":", " ">>
                \o (IF sm.byType[i].value.nan THEN <<"N", "a", "N">>
                    ELSE FormatInt(sm.byType[i].value.n))]

\* CsvExporter.generateCsv
generateCsv(cs, sm, opts) ==
    Join(<<escapeCsvRow(CsvHeaders)>>
            \o [i \in 1..Len(cs) |-> escapeCsvRow(CsvCells(cs[i]))]
            \o (IF opts.includeMetadata THEN CsvMetadataRows \o CsvSummaryRows(sm)
                ELSE <<>>),
         <<"\n">>)

\* CsvExporter.export
ExportCsv ==
    /\ pc = "summary"
    /\ \E opts \in [prettyPrint : BOOLEAN, includeMetadata : BOOLEAN] :
          /\ options' = opts
          /\ csv' = generateCsv(contents, summary, opts)
    /\ pc' = "csv"
    /\ UNCHANGED <<text, fieldVars, pipeVars, classifierVars, confVars, callVars, extractorVars, json>>

MaxCsvTables == 1

\* the paragraph of a document: one with a comma, one with quotes, one with
\* neither
CsvParagraphs ==
    {<<"F", "e", "e", " ", "i", "s", " ", "1", ",", "5", " ", "p", "e", "r",
      "c", "e", "n", "t">>,
     <<"S", "a", "y", " ", "\"", "h", "i", "\"", " ", "t", "o", " ", "a",
      "l", "l">>,
     <<"R", "a", "t", "e", "s", " ", "a", "p", "p", "l", "y", " ", "d", "a",
      "i", "l", "y">>}

\* the tables of a document: one with headers and a comma in a cell, one
\* without headers and with a quote in a cell
CsvTables ==
    {[hasHeaders |-> TRUE, headers |-> <<<<"K", "e", "y">>, <<"V", "a", "l">>>>,
      rows |-> <<<<<<"a">>, <<"1", ",", "5">>>>>>],
     [hasHeaders |-> FALSE, headers |-> <<>>,
      rows |-> <<<<<<"1">>, <<"2", "\"">>>>, <<<<"3">>, <<>>>>>>]}

\* the contents of a result: the unit of the paragraph, if any, then the
\* units of up to MaxCsvTables tables
CsvContents ==
    {allContents(ts, analyzeTables(tbls, Len(ts))) :
        ts \in {<<>>} \cup {<<TextUnit(1, "business_rule", p, c, 0)>> :
                                p \in CsvParagraphs, c \in {750, Unit}},
        tbls \in SeqUpTo(CsvTables, MaxCsvTables)}

InitCsv ==
    /\ pc = "contents"
    /\ contents \in CsvContents
    /\ text = <<>>
    /\ tables = <<>>
    /\ threshold = 0
    /\ enableTableExtraction = FALSE
    /\ paragraphs = <<>>
    /\ idx = 0
    /\ scorerCalls = <<>>
    /\ classifications = <<>>
    /\ confidence = 0
    /\ sheet = <<>>
    /\ FieldsIdle
    /\ ConfidenceIdle
    /\ CallsIdle
    /\ ExportIdle
    /\ ClassifierIdle
    /\ ExtractorIdle

NextCsv ==
    \/ CalculateSummary
    \/ ExportCsv

SpecCsv == InitCsv /\ [][NextCsv]_vars

\* the lines of the file
CsvLines == SplitOnChars(csv, {"\n"})

\* the fields of a line of CSV: a field that starts with a double quote runs
\* to the double quote that closes it, two double quotes in a row standing
\* for one; any other field runs to the next comma
RECURSIVE QuotedField(_, _, _)
QuotedField(line, p, acc) ==
    LET at == {i \in p..Len(line) : line[i] = "\""}
    IN  IF at = {} THEN [field |-> acc, next |-> Len(line) + 1, closed |-> FALSE]
        ELSE LET q == MinOf(at)
                 upTo == acc \o Sub(line, p, q - 1)
             IN  IF q + 1 <= Len(line) /\ line[q + 1] = "\""
                 THEN QuotedField(line, q + 2, Append(upTo, "\""))
                 ELSE [field |-> upTo, next |-> q + 1, closed |-> TRUE]

RECURSIVE CsvFields(_, _)
CsvFields(line, p) ==
    IF p <= Len(line) /\ line[p] = "\""
    THEN LET q == QuotedField(line, p + 1, <<>>)
         IN  IF ~q.closed \/ (q.next <= Len(line) /\ line[q.next] # ",")
             THEN <<SyntaxError>>
             ELSE <<q.field>> \o (IF q.next > Len(line) THEN <<>>
                                  ELSE CsvFields(line, q.next + 1))
    ELSE LET at == {i \in p..Len(line) : line[i] = ","}
         IN  IF at = {} THEN <<Sub(line, p, Len(line))>>
             ELSE <<Sub(line, p, MinOf(at) - 1)>> \o CsvFields(line, MinOf(at) + 1)

\* a cell with a comma, a double quote or a line break
NeedsQuotes(cell) == \E i \in 1..Len(cell) : cell[i] \in {",", "\"", "\n"}

\* the text of a line the fields of which are the cells: a cell with a comma,
\* a double quote or a line break in double quotes, any other as it is
QuotedWhereNeeded(line, cells) ==
    /\ CsvFields(line, 1) = cells
    /\ Len(line) = (Len(cells) - 1)
          + Len(Concat([i \in 1..Len(cells) |->
                           IF NeedsQuotes(cells[i])
                           THEN <<"\"">> \o DoubleQuotes(cells[i]) \o <<"\"">>
                           ELSE cells[i]]))

\* what the line of a unit is to say: id, type, content with a space for
\* every line break, confidence, page, paragraph, Yes or No
FieldsOfUnit(u) ==
    <<FormatInt(u.id),
      Chars(u.type),
      [j \in 1..Len(u.content) |-> IF u.content[j] = "\n" THEN " " ELSE u.content[j]],
      FormatNumber(u.confidence),
      <<>>,
      IF u.paragraph = -1 THEN <<>> ELSE FormatInt(u.paragraph),
      IF u.type = "table" THEN <<"Y", "e", "s">> ELSE <<"N", "o">>>>

ValueSpan(f) ==
    LET colon == MinOf({i \in 1..Len(f.rawText) : f.rawText[i] = ":"})
    IN  Trim(Sub(f.rawText, colon + 1, Len(f.rawText)))

\* the non-empty trimmed values of the split on comma, semicolon and bar
DelimiterValues(span) == FilterNonEmpty(MapTrim(SplitOnChars(span, {",", ";", "|"})))

\* the non-empty trimmed values of the split on the words and / or
ConjunctionValues(span) == FilterNonEmpty(MapTrim(SplitOnConj(span)))

\* C23: the values of a field are those of the comma/semicolon/bar split of
\* its span when that split yields two or more non-empty trimmed values; when
\* it yields exactly one non-empty value, a leading or trailing delimiter
\* notwithstanding, they are those of the and/or split of the span.
C23_ConjunctionFallback ==
    (round = 0 /\ pc # "text") =>
        \A i \in 1..Len(fields) :
            LET span == ValueSpan(fields[i])
            IN  /\ Len(DelimiterValues(span)) >= 2 =>
                      fields[i].values = DelimiterValues(span)
                /\ Len(DelimiterValues(span)) = 1 =>
                      fields[i].values = ConjunctionValues(span)

\* a text that is a key and a colon followed by delimiters and spaces only
OnlyDelimiters(s) ==
    /\ Len(s) >= 3
    /\ IsWord(s[1])
    /\ s[2] = ":"
    /\ \A i \in 3..Len(s) : s[i] \in {",", "|", " "}

\* C24: every field extractFields returns has at least one value, every
\* value is non-empty and has no whitespace at either end; a span whose
\* values are all empty gives no field, and the call ends without an error.
C24_ValuesNonEmptyTrimmed ==
    pc # "text" =>
        /\ error = ""
        /\ \A i \in 1..Len(fields) :
              /\ Len(fields[i].values) >= 1
              /\ \A v \in 1..Len(fields[i].values) :
                    LET value == fields[i].values[v]
                    IN  /\ Len(value) >= 1
                        /\ ~IsSpace(value[1])
                        /\ ~IsSpace(value[Len(value)])
        /\ (round = 0 /\ OnlyDelimiters(text)) => fields = <<>>

\* a field was recorded for a span one piece of which is empty
C24_Witness ==
    /\ pc = "fields"
    /\ round = 0
    /\ \E i \in 1..Len(fields) :
          Len(SplitOnChars(ValueSpan(fields[i]), {",", ";", "|"})) > Len(fields[i].values)

(***************************************************************************)
(* Claims about the headers of the tables of a PDF                         *)
(***************************************************************************)
\* the cell holds name, type, description or value, in any case of letters
HoldsHeaderWord(cell) ==
    \E t \in HeaderTokens : \E i \in 1..Len(cell) :
        /\ i + Len(t) - 1 <= Len(cell)
        /\ \A j \in 1..Len(t) : ToLowerCase(<<cell[i + j - 1]>>) = <<t[j]>>

\* the cell holds no digit
HoldsNoDigit(cell) == \A i \in 1..Len(cell) : cell[i] \notin Digits

\* C25: for every block detected, the first row becomes the headers if and
\* only if one of its cells holds name, type, description or value (in any
\* case) or one of its cells holds no digit; then rows is the block without
\* its first row, otherwise there are no headers and rows is the whole block.
C25_HeaderDetection ==
    pc = "pdfTables" =>
        \A n \in 1..Len(tables) :
            LET block == RunGrid(RowCells, NthLongRun(RowCells, n))
                first == block[1]
            IN  IF \E c \in 1..Len(first) : HoldsHeaderWord(first[c]) \/ HoldsNoDigit(first[c])
                THEN /\ tables[n].hasHeaders
                     /\ tables[n].headers = first
                     /\ tables[n].rows = Tail(block)
                ELSE /\ ~tables[n].hasHeaders
                     /\ tables[n].rows = block

\* a block whose first row is the header for a word it holds, every cell of
\* it holding a digit
C25_Witness ==
    /\ pc = "pdfTables"
    /\ \E n \in 1..Len(tables) :
          /\ tables[n].hasHeaders
          /\ \A c \in 1..Len(tables[n].headers) : HasDigit(tables[n].headers[c])

(***************************************************************************)
(* Claims about the lines of a text and the fields found in it             *)
(***************************************************************************)
HasLineBreak(s) == \E i \in 1..Len(s) : s[i] = "\n"

\* C30: every field extractFields returns lies within one line of the text:
\* its rawText and its key hold no line break, and none of its values holds
\* a semicolon or a line break.
C30_FieldWithinLine ==
    (round = 0 /\ pc # "text") =>
        \A i \in 1..Len(fields) :
            /\ ~HasLineBreak(fields[i].rawText)
            /\ ~HasLineBreak(fields[i].key)
            /\ \A v \in 1..Len(fields[i].values) :
                  \A j \in 1..Len(fields[i].values[v]) :
                      fields[i].values[v][j] \notin {";", "\n"}

(***************************************************************************)
(* Claims about the configuration of the extractor and of its analyzer     *)
(***************************************************************************)
\* C28: once the extractor is built, and after any updateConfig calls, be
\* they successful or not, the threshold and the labels the ContentAnalyzer
\* uses are the confidenceThreshold and the classificationLabels getConfig
\* reports.
C28_AnalyzerFollowsConfig ==
    pc = "ready" =>
        /\ threshold = config.confidenceThreshold
        /\ labels = config.classificationLabels

\* the errors updateConfig raises
UpdateConfigErrors ==
    {"ZodError", "Confidence threshold must be between 0 and 1",
     "Classification labels cannot be empty"}

\* C29: an updateConfig call that raises an error leaves the configuration
\* getConfig reports and the threshold and the labels of the analyzer as
\* they were before the call.
C29_RejectedUpdateAtomic ==
    [][(pc = "ready" /\ pc' = "ready" /\ error' \in UpdateConfigErrors) =>
          /\ config' = config
          /\ threshold' = threshold
          /\ labels' = labels]_vars

(***************************************************************************)
(* ZeroShotClassifier under concurrent calls.  A caller is an async call   *)
(* chain on one classifier; an action is what runs between two awaits.     *)
(* at: "idle" (no call made), "loading" (initialize awaits pipeline()),    *)
(* "inferring" (classify awaits the model), "returned", "failed".          *)
(* results holds what the classify calls of the caller returned, each with *)
(* the text it was called for.                                             *)
(***************************************************************************)
MaxBatch == 2

MaxCalls == 2

\* a blank text and two texts that are not blank
ScorerTexts == {<<" ">>, <<"a">>, <<"b">>}

\* how the call of the model ends for the callers
ScorerOutcomes ==
    {[kind |-> "ranked", label |-> "business_rule", score |-> 750],
     [kind |-> "threw", label |-> "", score |-> 0]}

\* the calls a caller makes
CallInputs ==
    {[op |-> "isReady", texts |-> <<>>]}
        \cup {[op |-> "classify", texts |-> <<t>>] : t \in ScorerTexts}
        \cup {[op |-> "classifyBatch", texts |-> ts] : ts \in SeqUpTo(ScorerTexts, MaxBatch)}

\* a result put before the results already there
unshiftResult(results, r) == <<r>> \o results

\* results.push(result)
pushResult(results, r) == Append(results, r)

RECURSIVE Proceed(_, _)
\* the caller from the call of classify for its next text to its next await
\* or to its return.  initialize starts a load unless isInitialized; once
\* initialized, this.classifier is set, a blank text gets the default
\* scores without a call of the model, any other text is given to the model.
Proceed(rec, initialized) ==
    IF Len(rec.results) = Len(rec.texts) THEN [rec EXCEPT !.at = "returned"]
    ELSE IF ~initialized THEN [rec EXCEPT !.at = "loading"]
    ELSE LET t == rec.texts[Len(rec.results) + 1]
         IN  IF Len(Trim(t)) = 0
             THEN Proceed([rec EXCEPT !.results =
                              pushResult(@, [for |-> t, scores |-> DefaultScores])],
                          initialized)
             ELSE [rec EXCEPT !.at = "inferring"]

\* isReady up to its await or its return
ProceedReady(rec, initialized) ==
    IF initialized THEN [rec EXCEPT !.at = "returned", !.ready = TRUE]
    ELSE [rec EXCEPT !.at = "loading"]

\* a caller calls classify, classifyBatch or isReady
StartCall(c) ==
    /\ callers[c].at \in {"idle", "returned", "failed"}
    /\ callers[c].calls < MaxCalls
    /\ \E in \in CallInputs :
          LET rec == [op |-> in.op, at |-> "idle", texts |-> in.texts, results |-> <<>>,
                      ready |-> FALSE, calls |-> callers[c].calls + 1]
              next == IF in.op = "isReady" THEN ProceedReady(rec, isInitialized)
                      ELSE Proceed(rec, isInitialized)
          IN  /\ callers' = [callers EXCEPT ![c] = next]
              /\ pipelineCalls' = IF next.at = "loading" THEN pipelineCalls + 1
                                  ELSE pipelineCalls
    /\ UNCHANGED <<pc, text, fieldVars, pipeVars, confVars, callVars, extractorVars,
                   exportVars, pipelines>>

\* pipeline() resolves for a caller: this.classifier and isInitialized are
\* set, initialize returns and the call goes on
PipelineResolves(c) ==
    /\ callers[c].at = "loading"
    /\ pipelines' = Append(pipelines, c)
    /\ isInitialized' = TRUE
    /\ callers' = [callers EXCEPT ![c] =
                      IF @.op = "isReady" THEN ProceedReady(@, TRUE) ELSE Proceed(@, TRUE)]
    /\ UNCHANGED <<pc, text, fieldVars, pipeVars, confVars, callVars, exportVars,
                   pipelineCalls, config, labels, error, filePath, parser, file>>

\* pipeline() rejects: initialize throws and so does the call
PipelineRejects(c) ==
    /\ callers[c].at = "loading"
    /\ error' = "Failed to initialize classifier"
    /\ callers' = [callers EXCEPT ![c].at = "failed"]
    /\ UNCHANGED <<pc, text, fieldVars, pipeVars, confVars, callVars, exportVars,
                   pipelineCalls, pipelines, config, labels, filePath, parser,
                   isInitialized, file>>

\* the model answers or throws: classify returns, and classifyBatch goes on
\* with its next text
InferenceReturns(c) ==
    /\ callers[c].at = "inferring"
    /\ \E outcome \in ScorerOutcomes :
          /\ inference' = outcome.kind
          /\ callers' = [callers EXCEPT ![c] =
                Proceed([@ EXCEPT !.results =
                            pushResult(@, [for |-> callers[c].texts[Len(callers[c].results) + 1],
                                           scores |-> classify(outcome)])],
                        isInitialized)]
    /\ UNCHANGED <<pc, text, fieldVars, pipeVars, confVars, summary, extractorVars,
                   exportVars, pipelineCalls, pipelines>>

\* a classifier just constructed
InitClassifier ==
    /\ pc = "classifier"
    /\ text = <<>>
    /\ isInitialized = FALSE
    /\ config = [classificationLabels |-> classificationLabels,
                 confidenceThreshold |-> DefaultThreshold]
    /\ labels = classificationLabels
    /\ error = ""
    /\ filePath = <<>>
    /\ parser = "none"
    /\ file = IntactFile
    /\ FieldsIdle
    /\ PipelineIdle
    /\ ConfidenceIdle
    /\ CallsIdle
    /\ ExportIdle
    /\ ClassifierIdle

NextClassifier ==
    \E c \in Callers :
        \/ StartCall(c)
        \/ PipelineResolves(c)
        \/ PipelineRejects(c)
        \/ InferenceReturns(c)

SpecClassifier == InitClassifier /\ [][NextClassifier]_vars

\* C26: the model pipeline of a classifier is created at most once, whatever
\* the sequence or interleaving of classify, classifyBatch and isReady
\* calls, calls made while a first initialization is under way included;
\* every call of the model uses that one pipeline.
C26_InitializedOnce == Len(pipelines) <= 1

(***************************************************************************)
(* analyzeText and a caller of classifyBatch on one classifier, the model  *)
(* loaded: extract has awaited isReady before it calls analyzeText.        *)
(***************************************************************************)
\* the texts of the documents: a sentence, a text too short to classify and
\* a text of two blocks
ScoringTexts == {Prose50, <<"H", "i">>, Join(<<Prose50, KeyLine1>>, <<"\n", "\n">>)}

\* every caller but the first has made its calls, the first has one left
InitScoring ==
    /\ pc = "parsed"
    /\ text \in ScoringTexts
    /\ threshold = DefaultThreshold
    /\ enableTableExtraction = FALSE
    /\ tables = <<>>
    /\ paragraphs = <<>>
    /\ idx = 0
    /\ contents = <<>>
    /\ scorerCalls = <<>>
    /\ classifications = <<>>
    /\ confidence = 0
    /\ sheet = <<>>
    /\ FieldsIdle
    /\ ConfidenceIdle
    /\ CallsIdle
    /\ ExportIdle
    /\ ExtractorIdle
    /\ callers = [c \in Callers |->
                     [IdleCaller EXCEPT !.calls = IF c = 1 THEN MaxCalls - 1 ELSE MaxCalls]]
    /\ pipelineCalls = 1
    /\ pipelines = <<1>>

NextScoring ==
    \/ AnalyzeText
    \/ SkipParagraph
    \/ Classify
    \/ ClassifyReturn
    \/ AnalyzeTables
    \/ \E c \in Callers : StartCall(c) \/ InferenceReturns(c)

SpecScoring == InitScoring /\ [][NextScoring]_vars

=============================================================================
